---- MODULE Spec2Model ----
(***************************************************************************)
(* The episode submission / generation-tracking state machine of           *)
(* PodcastForm (src/src/components/podcast-form.tsx), together with the    *)
(* container App (src/src/App.tsx), the loading, selection, editing,       *)
(* deletion and sorting of EpisodesList and the ScriptApprovalDialog       *)
(* (src/unnamed/part_000), the store and the webhook.                      *)
(*                                                                         *)
(* Execution model.  The browser runs one handler at a time.  A step of    *)
(* this model is one synchronous segment of a handler (from its start, or  *)
(* from the completion of an await, to the next await or its end) followed *)
(* by the re-render React performs for the state it set and by the effects *)
(* of that render, repeated until no effect sets state any more (Render).  *)
(* Updates are batched (createRoot): the render happens after the segment. *)
(*                                                                         *)
(* Closures.  A function of the component sees the isSubmitting of the     *)
(* render that created it.  onSubmit can only be started from a render     *)
(* with isSubmitting = false (its button is disabled otherwise), so the    *)
(* timer callbacks it creates and its own continuation carry that value;   *)
(* the subscription callbacks and the list-refresh listener are re-created *)
(* by effects keyed on isSubmitting, so they carry the current value.      *)
(* Refs (.current) are always read live.                                   *)
(***************************************************************************)
EXTENDS Integers, FiniteSets, Sequences, TLC

VARIABLES
    store,      \* the external table: row id -> row, NoRow or Gone
    form,       \* PodcastForm: its state, refs and form-field values
    app,        \* App: selectedScriptLinks, selectedEpisodeName
    list,       \* EpisodesList: selectedRecordId (and its sort state)
    pending,    \* asynchronous calls in flight (awaits not yet resumed)
    events,     \* realtime change events not yet delivered to PodcastForm
    elapsed,    \* clock ticks since the current submission started
    sid,        \* number of submissions accepted so far (names a session)
    hist,       \* the current session: notifications emitted, webhook posted
    last        \* what the last step did (as seen by an observer of the UI)

vars == <<store, form, app, list, pending, events, elapsed, sid, hist, last>>

-----------------------------------------------------------------------------
(* Bounds of the model *)

MaxRows == 1            \* rows the table ever holds
MaxSubmissions == 1     \* submissions accepted in one behaviour
MaxPending == 2         \* asynchronous calls in flight at once
MaxEvents == 1          \* change events in flight at once
MaxTicks == 1           \* clock ticks followed after a submission
MaxListRows == 2        \* rows the table ever holds while the list is worked on
MaxSortRows == 3        \* rows of a result set that is sorted
MaxClicks == 3          \* header clicks followed from the unsorted state
MaxNumber == 10         \* the greatest number a cell holds
MaxColumns == 4         \* columns a fetched row is seen to have
MaxSaves == 2           \* Save clicks followed in one behaviour
MaxSessions == 2        \* submissions accepted where one follows another

(* Program constants *)

MAX_WAIT_TIME == 2 * 60 * 1000      \* podcast-form.tsx:123
PollIntervalMs == 1000              \* podcast-form.tsx:815

\* One clock tick of the model, in milliseconds: the ceiling is reached once
\* the ticks add up to MAX_WAIT_TIME, and every tick covers a poll interval.
TickMs == 120000

-----------------------------------------------------------------------------
(* Values *)

NULL == "null"              \* null and undefined
NoRow == [id |-> NULL]
Gone == [id |-> "deleted"]  \* a deleted row: the store does not reuse its id

Ids == {ToString(i) : i \in 1..MaxRows}
ListIds == {ToString(i) : i \in 1..MaxListRows}
Names == {"ep1", "ep2"}     \* episode names of rows
TypedNames == {"ep1"}       \* episode names the user types

S1 == "episode_interview_script_1"
S2 == "episode_interview_script_2"
S3 == "episode_interview_script_3"
S4 == "episode_interview_script_4"
FULL == "episode_interview_full_script"
FILE == "episode_interview_file"
ScriptKeys == {S1, S2, S3, S4, FULL, FILE}

\* A link value is absent, the empty string, a string of blanks, or a URL
\* (one URL per row, so that rows can be told apart).
UrlOf(id) == "https://" \o id
Urls == {UrlOf(id) : id \in DOMAIN store}

\* JavaScript truthiness of a nullable string, and `x || null`.
Truthy(x) == x \notin {NULL, ""}
OrNull(x) == IF Truthy(x) THEN x ELSE NULL

\* isValidScriptLink: not null and not blank after trim().
isValidScriptLink(link) == link \notin {NULL, "", " "}

NoLinks == [k \in ScriptKeys |-> NULL]

\* The script fields the external workflow is seen to write, by progress.
\* none: nothing written; s123: scripts 1-3 with an empty script 4; s4:
\* script 4 and nothing else; all: everything.
LinksOf(id, shape) ==
    LET u == UrlOf(id) IN
    CASE shape = "none"   -> NoLinks
      [] shape = "s123"   -> [NoLinks EXCEPT ![S1] = u, ![S2] = u, ![S3] = u, ![S4] = ""]
      [] shape = "s4"     -> [NoLinks EXCEPT ![S4] = u]
      [] OTHER            -> [k \in ScriptKeys |-> u]
Shapes == {"none", "s123", "all"}
\* s4: script 4 alone (the workflow writing the summary first).
SnapshotShapes == {"none", "s123", "s4", "all"}

\* The three status columns as the store is seen to hold them:
\* <<script status, text-files status, podcast status>>.
StatusTriples ==
    { <<NULL, NULL, NULL>>,
      <<"Approved", "Pending", "Pending">> }

Row(id, name, created, links, st) ==
    [id |-> id,
     episode_interview_file_name |-> name,
     created_at |-> created,
     links |-> links,
     episode_interview_script_status |-> st[1],
     episode_text_files_status |-> st[2],
     podcast_status |-> st[3]]

\* id and created_at are assigned by the store, both in insertion order.
CreatedOf(id) == CHOOSE i \in 1..Cardinality(DOMAIN store) : ToString(i) = id

Rows == {store[i] : i \in {j \in DOMAIN store : store[j] \notin {NoRow, Gone}}}
NextId == ToString(Cardinality({j \in DOMAIN store : store[j] # NoRow}) + 1)

\* select ... .eq('episode_interview_file_name', name)
Matching(name) == {r \in Rows : r.episode_interview_file_name = name}

\* [...data].sort((a, b) => dateB - dateA)[0]: a row of the result with the
\* greatest created_at (a missing created_at counts as 0).
MostRecent(rows) == {r \in rows : \A q \in rows : q.created_at <= r.created_at}

-----------------------------------------------------------------------------
(* PodcastForm: state (useState), refs (useRef) and form-field values *)

ProcessingMsg == "Script #1 has been generated, kindly wait for the other scripts to load"

InitForm ==
    [isSubmitting |-> FALSE,
     selectedFile |-> NULL,
     isScriptGenerated |-> FALSE,
     scriptStatus |-> "Pending",
     textFilesStatus |-> NULL,
     podcastStatus |-> NULL,
     isApprovalDialogOpen |-> FALSE,
     processingStatus |-> NULL,
     scriptLinks |-> NoLinks,
     \* react-hook-form values and the DOM file input
     episodeName |-> "",
     pdfFile |-> NULL,
     fileInput |-> "",
     \* refs
     currentEpisodeName |-> NULL,
     currentEpisodeId |-> NULL,
     foundMatchingRecord |-> FALSE,
     isCheckingExistingRecords |-> FALSE,
     shouldClearPdfFile |-> FALSE,
     script4CheckIntervalRef |-> NULL,
     maxWaitTimeoutRef |-> NULL,
     \* the isSubmitting seen by the callbacks of the two timers (their closure)
     timerIsSubmitting |-> FALSE]

hasScript4(f) == isValidScriptLink(f.scriptLinks[S4])
hasScript1(f) == isValidScriptLink(f.scriptLinks[S1])

\* selectedEpisodeName !== null && ... && selectedEpisodeName.trim() !== ''
isEpisodeSelected == app.selectedEpisodeName \notin {NULL, "", " "}

\* ApproveDisabled without the script #4 requirement.
ApproveDisabledIgnoringScript4(f) ==
    f.scriptStatus = "Approved" \/ ~f.isScriptGenerated

\* The Approve button's `disabled` expression.
ApproveDisabled(f) ==
    f.scriptStatus = "Approved" \/ ~f.isScriptGenerated \/ ~hasScript4(f)

\* SubmitDisabled without the loading state.
SubmitDisabledWhenSelected == isEpisodeSelected

\* The submit button's `disabled` expression.
SubmitDisabled == form.isSubmitting \/ isEpisodeSelected

\* Files the user picks: a PDF, a text file, and a PDF of 0 bytes.
PickedFiles == {"pdf", "txt", "empty"}
FileSize(file) == IF file = "empty" THEN 0 ELSE 1
FileType(file) == IF file = "txt" THEN "text/plain" ELSE "application/pdf"
Files == {"pdf"}            \* the valid ones

\* formSchema: episodeName is a string of at least 3 characters; pdfFile is
\* a File with size > 0 and type "application/pdf".
NameLen(n) == Len(n)
formSchemaValidIgnoringType(name, file) ==
    /\ NameLen(name) >= 3
    /\ file \in PickedFiles
    /\ FileSize(file) > 0

formSchemaValid(name, file) ==
    /\ NameLen(name) >= 3
    /\ file \in PickedFiles
    /\ FileSize(file) > 0 /\ FileType(file) = "application/pdf"

\* clearPdfFile leaving the file input as it is.
clearPdfFileKeepingInput(f) == [f EXCEPT !.selectedFile = NULL]

\* Lines 314-330: clearPdfFile.
clearPdfFile(f) == [f EXCEPT !.selectedFile = NULL, !.fileInput = ""]

ClearTimers(f) ==
    [f EXCEPT !.script4CheckIntervalRef = NULL, !.maxWaitTimeoutRef = NULL]

\* useEffect([isSubmitting]), lines 254-293: its body.
CleanupEffect(f) ==
    IF f.isSubmitting THEN f
    ELSE LET a == [ClearTimers(f) EXCEPT !.foundMatchingRecord = FALSE,
                                         !.isCheckingExistingRecords = FALSE]
         IN IF a.shouldClearPdfFile
            THEN [clearPdfFile(a) EXCEPT !.shouldClearPdfFile = FALSE]
            ELSE a

\* useEffect([isSubmitting]), lines 333-340.
ClearFileEffect(f) ==
    IF ~f.isSubmitting /\ f.foundMatchingRecord THEN clearPdfFile(f) ELSE f

\* useEffect([scriptLinks, isSubmitting, hasScript1, hasScript4]), lines 343-359.
ProcessingStatusEffect(f) ==
    IF f.isSubmitting \/ hasScript1(f)
    THEN IF hasScript1(f) /\ ~hasScript4(f)
         THEN [f EXCEPT !.processingStatus = ProcessingMsg]
         ELSE IF hasScript4(f)
              THEN IF f.isSubmitting
                   THEN [f EXCEPT !.processingStatus = NULL,
                                  !.isSubmitting = FALSE,
                                  !.shouldClearPdfFile = TRUE]
                   ELSE [f EXCEPT !.processingStatus = NULL]
              ELSE f
    ELSE [f EXCEPT !.processingStatus = NULL]

\* One render and its effects.  prevSubmitting is the isSubmitting of the
\* render before: when it differs, the effects keyed on isSubmitting run
\* their cleanups (which clear both timers, lines 282-292 and 662-672) and
\* then their bodies, in the order the component declares them.
RenderPass(prevSubmitting, f) ==
    LET a == IF f.isSubmitting # prevSubmitting
             THEN ClearFileEffect(CleanupEffect(ClearTimers(f)))
             ELSE f
    IN ProcessingStatusEffect(a)

\* Render until no effect sets state: the only state an effect sets that
\* another effect depends on is isSubmitting (true -> false), so two passes.
\* After the component has unmounted (the mount is followed only where the
\* form carries the field) a state setter does nothing and no render or
\* effect follows; refs are still written.  The fields below are the React
\* state, the values of the form fields and the DOM file input; the others
\* are refs.
StateFields ==
    {"isSubmitting", "selectedFile", "isScriptGenerated", "scriptStatus",
     "textFilesStatus", "podcastStatus", "isApprovalDialogOpen",
     "processingStatus", "scriptLinks", "episodeName", "pdfFile", "fileInput"}

IsUnmounted(f) == "mounted" \in DOMAIN f /\ ~f.mounted

AfterUnmount(prev, f) ==
    [k \in DOMAIN f |-> IF k \in StateFields THEN prev[k] ELSE f[k]]

Render(prev, f) ==
    IF IsUnmounted(prev) THEN AfterUnmount(prev, f)
    ELSE LET p1 == RenderPass(prev.isSubmitting, f)
         IN IF p1.isSubmitting # f.isSubmitting
            THEN RenderPass(f.isSubmitting, p1) ELSE p1

-----------------------------------------------------------------------------
(* The code every resolver repeats: load a record snapshot into the form *)

ToScriptStatus(st) == IF st = "Approved" THEN "Approved" ELSE "Pending"

\* setScriptLinks({... || null}), setIsScriptGenerated(!!(s1 || s2 || s3 || s4)),
\* and the three `if (record.<status>) set...(...)`: lines 405-435, 500-530,
\* 589-619, 690-720, 875-921.
LoadRecord(f, r) ==
    [f EXCEPT
        !.scriptLinks = [k \in ScriptKeys |-> OrNull(r.links[k])],
        !.isScriptGenerated = \E k \in {S1, S2, S3, S4} : Truthy(r.links[k]),
        !.scriptStatus = IF Truthy(r.episode_interview_script_status)
                         THEN ToScriptStatus(r.episode_interview_script_status)
                         ELSE @,
        !.textFilesStatus = IF Truthy(r.episode_text_files_status)
                            THEN r.episode_text_files_status ELSE @,
        !.podcastStatus = IF Truthy(r.podcast_status) THEN r.podcast_status ELSE @]

\* `if (hasScript1 && !hasScript4) {...} else if (hasScript4 [&& cond]) {...}`:
\* what the branch taken is.  cond is TRUE except in the UPDATE callback.
Script4Branch(r, cond) ==
    IF Truthy(r.links[S1]) /\ ~Truthy(r.links[S4]) THEN "partial"
    ELSE IF Truthy(r.links[S4]) /\ cond THEN "complete"
    ELSE "neither"

\* StopLoading without setIsSubmitting(false).
StopLoadingStillSubmitting(f) ==
    [ClearTimers(f) EXCEPT !.shouldClearPdfFile = TRUE]

\* The "complete" branch: stop loading, mark the file for clearing, clear
\* the poll interval and the timeout.
StopLoading(f) ==
    [ClearTimers(f) EXCEPT !.isSubmitting = FALSE, !.shouldClearPdfFile = TRUE]

\* Lines 437-467, 532-562, 621-651: the tail of a resolver, after LoadRecord.
ResolveTail(f, r, cond) ==
    CASE Script4Branch(r, cond) = "partial"  -> [f EXCEPT !.processingStatus = ProcessingMsg]
      [] Script4Branch(r, cond) = "complete" -> StopLoading(f)
      [] OTHER -> f

SuccessToast(r, cond) ==
    IF Script4Branch(r, cond) = "complete" THEN {"Success!"} ELSE {}

-----------------------------------------------------------------------------
(* History *)

\* hist.toasts: the resolution notifications emitted for the session that is
\* current (it saturates at 2); hist.posted: the webhook request of that
\* session was sent.
InitHist == [toasts |-> 0, posted |-> FALSE]

ResolutionToasts == {"Success!", "Scripts Found!", "Processing Timeout"}

\* Count a resolution notification of session s.
Notified(h, s, toasts) ==
    IF toasts \cap ResolutionToasts # {} /\ s = sid
    THEN [h EXCEPT !.toasts = IF @ < 2 THEN @ + 1 ELSE @]
    ELSE h

\* What a step did: the handler that ran, the notifications it emitted and
\* the onRecordSelect calls the list made.
Step(op, toasts) == [op |-> op, toasts |-> toasts, emitted |-> <<>>]
StepEmitting(op, toasts, selection) ==
    [op |-> op, toasts |-> toasts, emitted |-> <<selection>>]

Call(op, name, s, id, closure) ==
    [op |-> op, name |-> name, sid |-> s, id |-> id, isSubmitting |-> closure]

\* The clock is only followed while a session is loading.
Clock(f, t) == IF f.isSubmitting THEN t ELSE 0

-----------------------------------------------------------------------------
(* The external store and its change feed *)

\* A change event names the row it is about; its payload is that row as the
\* change left it.  Nothing forces an event to be delivered, so an event
\* that stays in flight stands for a lost one; an undelivered event is
\* superseded when its row changes again, so the payload of an event in
\* flight is the row the store holds; more than MaxEvents events in flight
\* are not followed.
Emit(type, id) ==
    LET others == {e \in events : e.id # id}
    IN IF Cardinality(others) < MaxEvents
       THEN others \cup {[type |-> type, id |-> id]}
       ELSE others

\* The external workflow (or another client) inserts a row.
ExternalInsert(id, name, shape, st) ==
    /\ id = NextId
    /\ LET row == Row(id, name, CreatedOf(id), LinksOf(id, shape), st)
       IN /\ store' = [store EXCEPT ![id] = row]
          /\ events' = Emit("INSERT", id)
    /\ last' = Step("ExternalInsert", {})
    /\ UNCHANGED <<form, app, list, pending, elapsed, sid, hist>>

\* The external workflow (or another client) rewrites a row's script and
\* status columns; a write of the values already there is an event too.
ExternalUpdate(id, shape, st) ==
    /\ store[id] \in Rows
    /\ LET row == Row(id, store[id].episode_interview_file_name, CreatedOf(id),
                      LinksOf(id, shape), st)
       IN /\ store' = [store EXCEPT ![id] = row]
          /\ events' = Emit("UPDATE", id)
    /\ last' = Step("ExternalUpdate", {})
    /\ UNCHANGED <<form, app, list, pending, elapsed, sid, hist>>

-----------------------------------------------------------------------------
(* PodcastForm: the inputs *)

handleFileChange(file) ==
    /\ ~isEpisodeSelected /\ ~form.isApprovalDialogOpen
    /\ form.selectedFile # file
    /\ form' = [form EXCEPT !.selectedFile = file, !.pdfFile = file, !.fileInput = file]
    /\ last' = Step("handleFileChange", {})
    /\ UNCHANGED <<store, app, list, pending, events, elapsed, sid, hist>>

-----------------------------------------------------------------------------
(* PodcastForm: checkForNewRow *)

\* Lines 362-375: the guard, the flag and the query.  closure is the
\* isSubmitting of the render whose checkForNewRow is being called.
checkForNewRow(f, closure) ==
    IF f.currentEpisodeName = NULL \/ ~closure \/ f.foundMatchingRecord
       \/ f.isCheckingExistingRecords
    THEN [form |-> f, calls |-> {}]
    ELSE [form |-> [f EXCEPT !.isCheckingExistingRecords = TRUE],
          calls |-> {Call("checkForNewRow", f.currentEpisodeName, sid, NULL, closure)}]

\* Lines 295-311: the list dispatched 'episodes-list-refresh' (it does after
\* every successful fetch, and it fetches on every auto-refresh tick).
handleEpisodesListRefresh ==
    LET res == IF form.isSubmitting /\ ~form.foundMatchingRecord
                  /\ form.currentEpisodeName # NULL
               THEN checkForNewRow(form, form.isSubmitting)
               ELSE [form |-> form, calls |-> {}]
    IN /\ Cardinality(pending \cup res.calls) <= MaxPending
       /\ form' = Render(form, res.form)
       /\ pending' = pending \cup res.calls
       /\ last' = Step("handleEpisodesListRefresh", {})
       /\ UNCHANGED <<store, app, list, events, elapsed, sid, hist>>

\* Lines 377-381: the query failed.
checkForNewRowError(p) ==
    /\ p \in pending /\ p.op = "checkForNewRow"
    /\ form' = Render(form, [form EXCEPT !.isCheckingExistingRecords = FALSE])
    /\ pending' = pending \ {p}
    /\ last' = Step("checkForNewRowError", {})
    /\ UNCHANGED <<store, app, list, events, elapsed, sid, hist>>

\* Lines 383-474: the query returned no row.
checkForNewRowEmpty(p) ==
    /\ p \in pending /\ p.op = "checkForNewRow"
    /\ Matching(p.name) = {}
    /\ form' = Render(form, [form EXCEPT !.isCheckingExistingRecords = FALSE])
    /\ pending' = pending \ {p}
    /\ last' = Step("checkForNewRowEmpty", {})
    /\ UNCHANGED <<store, app, list, events, elapsed, sid, hist>>

\* Lines 383-474: the query returned rows; r is the most recent of them.
checkForNewRowFound(p, r) ==
    /\ p \in pending /\ p.op = "checkForNewRow"
    /\ r \in MostRecent(Matching(p.name))
    /\ LET f1 == [form EXCEPT !.foundMatchingRecord = TRUE, !.currentEpisodeId = r.id]
           f2 == ResolveTail(LoadRecord(f1, r), r, TRUE)
           f3 == [f2 EXCEPT !.isCheckingExistingRecords = FALSE]
       IN /\ form' = Render(form, f3)
          /\ elapsed' = Clock(form', elapsed)
    /\ pending' = pending \ {p}
    /\ hist' = Notified(hist, p.sid, SuccessToast(r, TRUE))
    /\ last' = Step("checkForNewRowFound", SuccessToast(r, TRUE))
    /\ UNCHANGED <<store, app, list, events, sid>>

-----------------------------------------------------------------------------
(* PodcastForm: the realtime subscriptions *)

\* Lines 486-565.  The callback was created by the render of the current
\* isSubmitting.
insertCallback(e) ==
    /\ e \in events /\ e.type = "INSERT"
    /\ LET r == store[e.id]
           hit == /\ form.isSubmitting /\ form.currentEpisodeName # NULL
                  /\ ~form.foundMatchingRecord
                  /\ r.episode_interview_file_name = form.currentEpisodeName
           f1 == IF hit
                 THEN ResolveTail(LoadRecord([form EXCEPT !.foundMatchingRecord = TRUE], r),
                                  r, TRUE)
                 ELSE form
           toast == IF hit THEN SuccessToast(r, TRUE) ELSE {}
       IN /\ form' = Render(form, f1)
          /\ elapsed' = Clock(form', elapsed)
          /\ hist' = Notified(hist, sid, toast)
          /\ last' = Step("insertCallback", toast)
    /\ events' = events \ {e}
    /\ UNCHANGED <<store, app, list, pending, sid>>

\* Lines 575-654.
updateCallback(e) ==
    /\ e \in events /\ e.type = "UPDATE"
    /\ LET r == store[e.id]
           hit == /\ form.currentEpisodeName # NULL
                  /\ r.episode_interview_file_name = form.currentEpisodeName
           f1 == IF hit
                 THEN ResolveTail(LoadRecord([form EXCEPT !.foundMatchingRecord = TRUE], r),
                                  r, form.isSubmitting)
                 ELSE form
           toast == IF hit THEN SuccessToast(r, form.isSubmitting) ELSE {}
       IN /\ form' = Render(form, f1)
          /\ elapsed' = Clock(form', elapsed)
          /\ hist' = Notified(hist, sid, toast)
          /\ last' = Step("updateCallback", toast)
    /\ events' = events \ {e}
    /\ UNCHANGED <<store, app, list, pending, sid>>

-----------------------------------------------------------------------------
(* PodcastForm: onSubmit *)

\* Lines 746-850: the user has typed name n into the episode-name input and
\* clicks the submit button; validation passes; everything up to the first
\* await.  The two timers are created here, and so see this render's
\* isSubmitting.
\* limit: the submissions followed in one behaviour.
onSubmitWithin(n, limit) ==
    /\ ~SubmitDisabled /\ ~form.isApprovalDialogOpen
    /\ formSchemaValid(n, form.pdfFile)
    /\ sid < limit
    /\ Cardinality(pending) < MaxPending
    /\ LET f1 == [form EXCEPT
                    !.episodeName = n,
                    !.currentEpisodeName = n,
                    !.foundMatchingRecord = FALSE,
                    !.isSubmitting = TRUE,
                    !.processingStatus = NULL,
                    !.scriptLinks = NoLinks,
                    !.isScriptGenerated = FALSE,
                    !.textFilesStatus = NULL,
                    !.podcastStatus = NULL,
                    !.script4CheckIntervalRef = "interval",
                    !.maxWaitTimeoutRef = "timeout",
                    !.timerIsSubmitting = form.isSubmitting]
       IN form' = Render(form, f1)
    /\ pending' = pending \cup
            {Call("existingCheck", n, sid + 1, NULL, form.isSubmitting)}
    /\ sid' = sid + 1
    /\ elapsed' = 0
    /\ hist' = InitHist
    /\ last' = Step("onSubmit", {"Processing Started"})
    /\ UNCHANGED <<store, app, list, events>>

onSubmit(n) == onSubmitWithin(n, MaxSubmissions)

\* Line 1199, handleSubmit(onSubmit): the user has typed name n and clicks
\* the submit button; the resolver rejects the values, the field messages
\* are shown and onSubmit is not called.
handleSubmitInvalid(n) ==
    /\ ~SubmitDisabled /\ ~form.isApprovalDialogOpen
    /\ ~formSchemaValid(n, form.pdfFile)
    /\ form' = Render(form, [form EXCEPT !.episodeName = n])
    /\ last' = Step("handleSubmitInvalid", {})
    /\ UNCHANGED <<store, app, list, pending, events, elapsed, sid, hist>>

\* Lines 854-931: the existence check returned rows; r is the most recent.
existingCheckFound(p, r) ==
    /\ p \in pending /\ p.op = "existingCheck"
    /\ r \in MostRecent(Matching(p.name))
    /\ LET f1 == [form EXCEPT !.foundMatchingRecord = TRUE, !.currentEpisodeId = r.id]
       IN form' = Render(form, StopLoading(LoadRecord(f1, r)))
    /\ elapsed' = Clock(form', elapsed)
    /\ pending' = pending \ {p}
    /\ hist' = Notified(hist, p.sid, {"Scripts Found!"})
    /\ last' = Step("existingCheckFound", {"Scripts Found!"})
    /\ UNCHANGED <<store, app, list, events, sid>>

\* Lines 937-947: the webhook request of call p's submission is sent.
PostWebhook(p, op) ==
    /\ pending' = (pending \ {p}) \cup {Call("webhook", p.name, p.sid, NULL, p.isSubmitting)}
    /\ hist' = IF p.sid = sid THEN [hist EXCEPT !.posted = TRUE] ELSE hist
    /\ last' = Step(op, {})
    /\ UNCHANGED <<store, form, app, list, events, elapsed, sid>>

\* Lines 852-853: the existence check failed (whatever the table holds); the
\* error is logged and the webhook request is sent.
existingCheckError(p) ==
    /\ p \in pending /\ p.op = "existingCheck"
    /\ PostWebhook(p, "existingCheckError")

\* Lines 854 and 933-935: the existence check returned no row; the webhook
\* request is sent.
existingCheckEmpty(p) ==
    /\ p \in pending /\ p.op = "existingCheck"
    /\ Matching(p.name) = {}
    /\ PostWebhook(p, "existingCheckEmpty")

\* Lines 677-744: processWebhookResponse on the first item of the response.
processWebhookResponse(f, item) ==
    IF item.episode_interview_file_name = f.currentEpisodeName
    THEN LET f1 == LoadRecord([f EXCEPT !.foundMatchingRecord = TRUE], item)
         IN CASE Script4Branch(item, TRUE) = "partial" ->
                    [f1 EXCEPT !.processingStatus = ProcessingMsg]
              [] Script4Branch(item, TRUE) = "complete" ->
                    [f1 EXCEPT !.isSubmitting = FALSE, !.shouldClearPdfFile = TRUE]
              [] OTHER -> f1
    ELSE f

\* Lines 949-989: the webhook answered 2xx with a JSON array whose first
\* element is item.  A processed response clears both timers; then the
\* continuation calls the checkForNewRow of its own render.
webhookItem(p, item) ==
    /\ p \in pending /\ p.op = "webhook"
    /\ LET processed == item.episode_interview_file_name = form.currentEpisodeName
           f1 == processWebhookResponse(form, item)
           f2 == IF processed THEN ClearTimers(f1) ELSE f1
           res == checkForNewRow(f2, p.isSubmitting)
       IN /\ form' = Render(form, res.form)
          /\ pending' = (pending \ {p}) \cup res.calls
    /\ elapsed' = Clock(form', elapsed)
    /\ last' = Step("webhookItem", {})
    /\ UNCHANGED <<store, app, list, events, sid, hist>>

\* Lines 951-957, 981-985 and 991-1010: a network error, a non-2xx status,
\* or a body that is no JSON array.  Logged; then checkForNewRow as above.
webhookFailed(p) ==
    /\ p \in pending /\ p.op = "webhook"
    /\ LET res == checkForNewRow(form, p.isSubmitting)
       IN /\ form' = Render(form, res.form)
          /\ pending' = (pending \ {p}) \cup res.calls
    /\ last' = Step("webhookFailed", {})
    /\ UNCHANGED <<store, app, list, events, elapsed, sid, hist>>

-----------------------------------------------------------------------------
(* The timers of onSubmit *)

Due(t) == t * TickMs >= MAX_WAIT_TIME

\* Lines 805-815: the interval's callback, with the closure of its render.
IntervalCallback(f) ==
    IF f.script4CheckIntervalRef = NULL THEN [form |-> f, calls |-> {}]
    ELSE IF f.timerIsSubmitting /\ ~f.foundMatchingRecord
         THEN checkForNewRow(f, f.timerIsSubmitting)
         ELSE [form |-> [f EXCEPT !.script4CheckIntervalRef = NULL], calls |-> {}]

\* Lines 822-843: the timeout's callback, with the closure of its render.
TimeoutFires(f, t) == f.maxWaitTimeoutRef # NULL /\ Due(t) /\ f.timerIsSubmitting

TimeoutCallback(f, t) ==
    IF TimeoutFires(f, t)
    THEN [f EXCEPT !.isSubmitting = FALSE, !.shouldClearPdfFile = TRUE,
                   !.script4CheckIntervalRef = NULL]
    ELSE f

\* Time passes while a session is loading: the interval ticks, and the
\* timeout fires once MAX_WAIT_TIME has passed.
Tick ==
    /\ form.isSubmitting
    /\ elapsed < MaxTicks
    /\ TickMs >= PollIntervalMs
    /\ LET res == IntervalCallback(form)
           f1 == TimeoutCallback(res.form, elapsed + 1)
           toast == IF TimeoutFires(res.form, elapsed + 1)
                    THEN {"Processing Timeout"} ELSE {}
       IN /\ Cardinality(pending \cup res.calls) <= MaxPending
          /\ form' = Render(form, f1)
          /\ pending' = pending \cup res.calls
          /\ hist' = Notified(hist, sid, toast)
          /\ last' = Step("Tick", toast)
    /\ elapsed' = Clock(form', elapsed + 1)
    /\ UNCHANGED <<store, app, list, events, sid>>

-----------------------------------------------------------------------------
(* PodcastForm: approval *)

\* Lines 1022-1024 and the button at 1362-1374.
handleApproveScripts ==
    /\ ~ApproveDisabled(form) /\ ~form.isApprovalDialogOpen
    /\ form' = [form EXCEPT !.isApprovalDialogOpen = TRUE]
    /\ last' = Step("handleApproveScripts", {})
    /\ UNCHANGED <<store, app, list, pending, events, elapsed, sid, hist>>

\* cancelApproval approving all the same.
cancelApprovalApproving ==
    /\ form.isApprovalDialogOpen
    /\ form' = [form EXCEPT !.isApprovalDialogOpen = FALSE, !.scriptStatus = "Approved"]
    /\ last' = Step("cancelApproval", {})
    /\ UNCHANGED <<store, app, list, pending, events, elapsed, sid, hist>>

\* Lines 1066-1068.
cancelApproval ==
    /\ form.isApprovalDialogOpen
    /\ form' = [form EXCEPT !.isApprovalDialogOpen = FALSE]
    /\ last' = Step("cancelApproval", {})
    /\ UNCHANGED <<store, app, list, pending, events, elapsed, sid, hist>>

\* Lines 1026-1040: up to the await of the store update.  Without a
\* remembered record id no update is issued and the closing toast follows.
confirmApproval ==
    /\ form.isApprovalDialogOpen
    /\ LET f1 == [form EXCEPT !.scriptStatus = "Approved", !.isApprovalDialogOpen = FALSE]
           calls == IF f1.currentEpisodeId # NULL
                    THEN {Call("approve", NULL, sid, f1.currentEpisodeId, f1.isSubmitting)}
                    ELSE {}
       IN /\ Cardinality(pending \cup calls) <= MaxPending
          /\ form' = Render(form, f1)
          /\ pending' = pending \cup calls
          /\ last' = Step("confirmApproval",
                          IF calls = {} THEN {"Scripts Approved"} ELSE {})
    /\ UNCHANGED <<store, app, list, events, elapsed, sid, hist>>

\* update({status: Approved, text files: Pending, podcast: Pending}).eq('id', id)
ApprovedRow(row) ==
    [row EXCEPT !.episode_interview_script_status = "Approved",
                !.episode_text_files_status = "Pending",
                !.podcast_status = "Pending"]

\* Lines 1049-1063: the update succeeded (it writes the row with that id, if
\* there is one).
approvalWritten(p) ==
    /\ p \in pending /\ p.op = "approve"
    /\ IF store[p.id] \in Rows
       THEN /\ store' = [store EXCEPT ![p.id] = ApprovedRow(@)]
            /\ events' = Emit("UPDATE", p.id)
       ELSE UNCHANGED <<store, events>>
    /\ form' = Render(form, [form EXCEPT !.textFilesStatus = "Pending",
                                         !.podcastStatus = "Pending"])
    /\ pending' = pending \ {p}
    /\ last' = Step("approvalWritten", {"Scripts Approved"})
    /\ UNCHANGED <<app, list, elapsed, sid, hist>>

\* ApprovalFailure rolling the local approval back.
ApprovalFailureRollsBack(f) == [f EXCEPT !.scriptStatus = "Pending"]

\* Lines 1042-1048 and 1059-1063: the update returned an error; no state is
\* set.  (The client resolves a failed request to an error object; the catch
\* at 1059-1061 is for a rejection, which logs and sets no state either.)
ApprovalFailure(f) == f

approvalFailed(p) ==
    /\ p \in pending /\ p.op = "approve"
    /\ form' = Render(form, ApprovalFailure(form))
    /\ pending' = pending \ {p}
    /\ last' = Step("approvalFailed", {"Update Error", "Scripts Approved"})
    /\ UNCHANGED <<store, app, list, events, elapsed, sid, hist>>

-----------------------------------------------------------------------------
(* EpisodesList.selectRecord, App.handleRecordSelect and the effect of
   PodcastForm that follows the selection *)

\* selectedScriptLinks = null (a record, so that it compares with one)
NullLinks == [links |-> NULL]
NoSelection == [selectedScriptLinks |-> NullLinks, selectedEpisodeName |-> NULL]

\* part_000, lines 317-327 and 366-376: the script links of a cleared
\* selection (every link null, every status undefined).
ClearedLinks ==
    [links |-> NoLinks,
     episode_interview_script_status |-> NULL,
     episode_text_files_status |-> NULL,
     podcast_status |-> NULL]

\* onRecordSelect(scriptLinks, episodeName): the call, as the list makes it.
Selection(scriptLinks, episodeName) ==
    [scriptLinks |-> scriptLinks, episodeName |-> episodeName]

\* part_000, lines 383-393: what selectRecord emits for a row.
EmittedLinks(record) ==
    [links |-> [k \in ScriptKeys |-> OrNull(record.links[k])],
     episode_interview_script_status |-> record.episode_interview_script_status,
     episode_text_files_status |-> record.episode_text_files_status,
     podcast_status |-> record.podcast_status]

\* handleRecordSelect keeping the script links of an event without a name.
handleRecordSelectKeepingLinks(scriptLinks, episodeName) ==
    IF ~Truthy(episodeName)
    THEN [selectedScriptLinks |-> scriptLinks, selectedEpisodeName |-> NULL]
    ELSE [selectedScriptLinks |-> scriptLinks, selectedEpisodeName |-> episodeName]

\* App.tsx, lines 24-36.
handleRecordSelect(scriptLinks, episodeName) ==
    IF ~Truthy(episodeName) THEN NoSelection
    ELSE [selectedScriptLinks |-> scriptLinks, selectedEpisodeName |-> episodeName]

\* podcast-form.tsx, lines 170-232: useEffect([selectedScriptLinks, ...]).
SelectionEffect(f, a) ==
    IF a.selectedScriptLinks # NullLinks
    THEN LET sel == a.selectedScriptLinks IN
         [f EXCEPT
            !.scriptLinks = [k \in ScriptKeys |->
                                IF k \in {FULL, FILE} THEN OrNull(sel.links[k])
                                ELSE sel.links[k]],
            !.scriptStatus = IF Truthy(sel.episode_interview_script_status)
                             THEN ToScriptStatus(sel.episode_interview_script_status)
                             ELSE "Pending",
            !.textFilesStatus = OrNull(sel.episode_text_files_status),
            !.podcastStatus = OrNull(sel.podcast_status),
            !.isScriptGenerated =
                \/ \E k \in ScriptKeys : Truthy(sel.links[k])
                \/ Truthy(sel.episode_interview_script_status)
                \/ Truthy(sel.episode_text_files_status)
                \/ Truthy(sel.podcast_status),
            !.episodeName = IF a.selectedEpisodeName \notin {NULL, "", " "}
                            THEN a.selectedEpisodeName ELSE @]
    ELSE [f EXCEPT !.episodeName = "", !.scriptLinks = NoLinks,
                   !.scriptStatus = "Pending", !.textFilesStatus = NULL,
                   !.podcastStatus = NULL, !.isScriptGenerated = FALSE]

\* part_000, lines 360-396: clicking a row the list shows.
selectRecord(record) ==
    /\ ~form.isApprovalDialogOpen
    /\ LET deselect == list.selectedRecordId = record.id
           ev == IF deselect THEN Selection(ClearedLinks, NULL)
                 ELSE Selection(EmittedLinks(record), record.episode_interview_file_name)
           a == handleRecordSelect(ev.scriptLinks, ev.episodeName)
           f1 == IF a.selectedScriptLinks = NullLinks /\ app.selectedScriptLinks = NullLinks
                 THEN form
                 ELSE SelectionEffect(form, a)
       IN /\ list' = [list EXCEPT !.selectedRecordId = IF deselect THEN NULL ELSE record.id]
          /\ app' = a
          /\ form' = Render(form, f1)
          /\ elapsed' = Clock(form', elapsed)
          /\ last' = StepEmitting("selectRecord", {}, ev)
    /\ UNCHANGED <<store, pending, events, sid, hist>>

-----------------------------------------------------------------------------
(* EpisodesList: its state and fetchData *)

\* part_000, lines 152-160: the state of the list when it has mounted and
\* its effect has started the first fetch (editedRecord null is NoRow).
InitListView ==
    [selectedRecordId |-> NULL,
     records |-> <<>>,
     isLoading |-> TRUE,
     isRefreshing |-> FALSE,
     error |-> NULL,
     editingId |-> NULL,
     editedRecord |-> NoRow,
     availableColumns |-> <<>>]

\* Object.keys of a row of the table.
Schema ==
    <<"id", "created_at", "episode_interview_file_name", "episode_interview_file",
      "episode_interview_full_script", "episode_interview_script_1",
      "episode_interview_script_2", "episode_interview_script_3",
      "episode_interview_script_4", "episode_interview_script_status",
      "episode_text_files_status", "podcast_status">>

\* select('*'): the rows of the table, in the order of their insertion.
SelectAll ==
    LET live == {i \in 1..Cardinality(DOMAIN store) : store[ToString(i)] \notin {NoRow, Gone}}
    IN [k \in 1..Cardinality(live) |->
            store[ToString(CHOOSE i \in live : Cardinality({j \in live : j < i}) = k - 1)]]

\* A fetch in flight: served once the store has answered, data is its answer.
FetchCall(showLoading, served, data) ==
    [op |-> "fetch", name |-> NULL, sid |-> sid, id |-> NULL, isSubmitting |-> FALSE,
     showLoading |-> showLoading, served |-> served, data |-> data]

FetchFailedMsg == "Failed to fetch data"

\* The three early returns of the render (457-505): the table is shown.
TableShown == ~list.isLoading /\ list.error = NULL /\ Len(list.records) > 0

\* What a step did, for a step that dispatched window events.
StepDispatching(op, toasts, dispatched) ==
    [op |-> op, toasts |-> toasts, emitted |-> <<>>, dispatched |-> dispatched]

\* Lines 164-176: fetchData up to its await.  fetchData() is called by the
\* Retry button of the error panel; fetchData(false) by the change
\* subscription and by the 'episodes-list-auto-refresh' listener, which the
\* form's interval fires every second.
fetchData(showLoading) ==
    /\ showLoading => (list.error # NULL /\ ~list.isLoading)
    /\ FetchCall(showLoading, FALSE, <<>>) \notin pending
    /\ Cardinality(pending) < MaxPending
    /\ list' = [list EXCEPT !.isLoading = IF showLoading THEN TRUE ELSE @,
                            !.isRefreshing = IF showLoading THEN @ ELSE TRUE,
                            !.error = NULL]
    /\ pending' = pending \cup {FetchCall(showLoading, FALSE, <<>>)}
    /\ last' = Step("fetchData", {})
    /\ UNCHANGED <<store, form, app, events, elapsed, sid, hist>>

\* fetchServed answering from the rows the list already holds.
fetchServedFromCache(p) ==
    /\ p \in pending /\ p.op = "fetch" /\ ~p.served
    /\ pending' = (pending \ {p}) \cup {FetchCall(p.showLoading, TRUE, list.records)}
    /\ last' = Step("fetchServed", {})
    /\ UNCHANGED <<store, form, app, list, events, elapsed, sid, hist>>

\* The store answers the select: the response travels back.
fetchServed(p) ==
    /\ p \in pending /\ p.op = "fetch" /\ ~p.served
    /\ pending' = (pending \ {p}) \cup {FetchCall(p.showLoading, TRUE, SelectAll)}
    /\ last' = Step("fetchServed", {})
    /\ UNCHANGED <<store, form, app, list, events, elapsed, sid, hist>>

\* podcast-form.tsx, lines 295-311: the listener of 'episodes-list-refresh'.
ListRefreshListener ==
    IF form.isSubmitting /\ ~form.foundMatchingRecord /\ form.currentEpisodeName # NULL
    THEN checkForNewRow(form, form.isSubmitting)
    ELSE [form |-> form, calls |-> {}]

\* FetchSuccess clearing the error state as well.
FetchSuccessClearingError(l, data) ==
    [l EXCEPT !.records = data,
              !.availableColumns = IF Len(data) > 0 THEN Schema ELSE @,
              !.error = NULL,
              !.isLoading = FALSE,
              !.isRefreshing = FALSE]

\* Lines 182-190 and 197-200: the state set when the rows have arrived.
FetchSuccess(l, data) ==
    [l EXCEPT !.records = data,
              !.availableColumns = IF Len(data) > 0 THEN Schema ELSE @,
              !.isLoading = FALSE,
              !.isRefreshing = FALSE]

\* Lines 178-200: the response has arrived without an error; the event is
\* dispatched synchronously, so the form's listener runs in this step.
fetchSucceeded(p) ==
    /\ p \in pending /\ p.op = "fetch" /\ p.served
    /\ list' = FetchSuccess(list, p.data)
    /\ LET res == ListRefreshListener
       IN /\ form' = Render(form, res.form)
          /\ pending' = (pending \ {p}) \cup res.calls
    /\ last' = StepDispatching("fetchSucceeded", {}, <<"episodes-list-refresh">>)
    /\ UNCHANGED <<store, app, events, elapsed, sid, hist>>

\* Lines 178-180 and 194-200: the request failed, or the store answered
\* with an error.
fetchFailed(p) ==
    /\ p \in pending /\ p.op = "fetch"
    /\ list' = [list EXCEPT !.error = FetchFailedMsg,
                            !.isLoading = FALSE,
                            !.isRefreshing = FALSE]
    /\ pending' = pending \ {p}
    /\ last' = StepDispatching("fetchFailed", {}, <<>>)
    /\ UNCHANGED <<store, form, app, events, elapsed, sid, hist>>

\* Another client deletes a row.  The change events about the row are
\* superseded by its DELETE event, which PodcastForm does not subscribe to.
ExternalDelete(id) ==
    /\ store[id] \in Rows
    /\ store' = [store EXCEPT ![id] = Gone]
    /\ events' = {e \in events : e.id # id}
    /\ last' = Step("ExternalDelete", {})
    /\ UNCHANGED <<form, app, list, pending, elapsed, sid, hist>>

-----------------------------------------------------------------------------
(* EpisodesList.handleDelete *)

\* The handleDelete of a render sees that render's selectedRecordId and
\* records.
DeleteCall(id, selected, records) ==
    [op |-> "delete", name |-> NULL, sid |-> sid, id |-> id, isSubmitting |-> FALSE,
     selectedRecordId |-> selected, records |-> records]

\* part_000, lines 296-305: the delete button of a displayed row, the
\* confirm() answered with OK, up to the await of the store's delete.
handleDelete(id) ==
    /\ ~form.isApprovalDialogOpen
    /\ TableShown
    /\ \E k \in 1..Len(list.records) : list.records[k].id = id
    /\ Cardinality(pending) < MaxPending
    /\ pending' = pending \cup {DeleteCall(id, list.selectedRecordId, list.records)}
    /\ last' = Step("handleDelete", {})
    /\ UNCHANGED <<store, form, app, list, events, elapsed, sid, hist>>

\* part_000, lines 296-300: the delete button of a displayed row, the
\* confirm() answered with Cancel.
handleDeleteDeclined(id) ==
    /\ ~form.isApprovalDialogOpen
    /\ TableShown
    /\ \E k \in 1..Len(list.records) : list.records[k].id = id
    /\ last' = Step("handleDeleteDeclined", {})
    /\ UNCHANGED <<store, form, app, list, pending, events, elapsed, sid, hist>>

\* `selectedRecordId === id` with the selectedRecordId of the handler.
DeletedWasSelected(p) == p.selectedRecordId = p.id

\* records.filter(record => record.id !== id)
WithoutRow(records, id) == SelectSeq(records, LAMBDA record : record.id # id)

\* part_000, lines 308-334: the store deleted the row (a delete that matches
\* no row succeeds too).  The change events about the row are superseded by
\* its DELETE event, which PodcastForm does not subscribe to.
deleteSucceeded(p) ==
    /\ p \in pending /\ p.op = "delete"
    /\ store' = [store EXCEPT ![p.id] = Gone]
    /\ events' = {e \in events : e.id # p.id}
    /\ pending' = pending \ {p}
    /\ IF DeletedWasSelected(p)
       THEN LET ev == Selection(ClearedLinks, NULL)
                a == handleRecordSelect(ev.scriptLinks, ev.episodeName)
                f1 == IF app.selectedScriptLinks = NullLinks THEN form
                      ELSE SelectionEffect(form, a)
            IN /\ list' = [list EXCEPT !.selectedRecordId = NULL,
                                       !.records = WithoutRow(p.records, p.id)]
               /\ app' = a
               /\ form' = Render(form, f1)
               /\ last' = StepEmitting("deleteSucceeded", {"Record deleted"}, ev)
       ELSE /\ list' = [list EXCEPT !.records = WithoutRow(p.records, p.id)]
            /\ UNCHANGED <<app, form>>
            /\ last' = Step("deleteSucceeded", {"Record deleted"})
    /\ elapsed' = Clock(form', elapsed)
    /\ UNCHANGED <<sid, hist>>

\* deleteFailed removing the row from the list all the same.
DeleteFailureRemovesRow(l, p) == [l EXCEPT !.records = WithoutRow(@, p.id)]

\* part_000, lines 335-341: the catch block sets no state.
DeleteFailure(l, p) == l

\* part_000, lines 308 and 335-341: the store answered with an error.
deleteFailed(p) ==
    /\ p \in pending /\ p.op = "delete"
    /\ pending' = pending \ {p}
    /\ list' = DeleteFailure(list, p)
    /\ last' = Step("deleteFailed", {"Delete failed"})
    /\ UNCHANGED <<store, form, app, events, elapsed, sid, hist>>

-----------------------------------------------------------------------------
(* EpisodesList: inline editing *)

\* Lines 546 and 605: the row in edit mode is one of the rows shown, so its
\* Save and Cancel buttons and its inputs are there.
EditingRowShown ==
    /\ TableShown
    /\ \E k \in 1..Len(list.records) : list.records[k].id = list.editingId

\* Lines 237-241: the Edit button of a row that is not in edit mode.
handleEdit(record) ==
    /\ TableShown
    /\ list.editingId # record.id
    /\ list' = [list EXCEPT !.editingId = record.id, !.editedRecord = record]
    /\ last' = Step("handleEdit", {})
    /\ UNCHANGED <<store, form, app, pending, events, elapsed, sid, hist>>

\* Lines 244-248.
handleCancelEdit ==
    /\ EditingRowShown
    /\ list' = [list EXCEPT !.editingId = NULL, !.editedRecord = NoRow]
    /\ last' = Step("handleCancelEdit", {})
    /\ UNCHANGED <<store, form, app, pending, events, elapsed, sid, hist>>

\* The cells the user is seen to type into (every column has an input, 600-616).
EditedKeys == {"id", "episode_interview_file_name"}
TypedValues(key) == IF key = "id" THEN ListIds ELSE {"ep2"}

\* Lines 251-258: typing value into the input of column key.
handleEditChange(key, value) ==
    /\ EditingRowShown
    /\ list.editedRecord # NoRow
    /\ list.editedRecord[key] # value
    /\ list' = [list EXCEPT !.editedRecord = [@ EXCEPT ![key] = value]]
    /\ last' = Step("handleEditChange", {})
    /\ UNCHANGED <<store, form, app, pending, events, elapsed, sid, hist>>

\* The handleSaveEdit of a render sees that render's editedRecord and records.
SaveCall(editedRecord, records) ==
    [op |-> "save", name |-> NULL, sid |-> sid, id |-> editedRecord.id,
     isSubmitting |-> FALSE, editedRecord |-> editedRecord, records |-> records]

\* Lines 261-269: the Save button, up to the await of the store's update.
\* saves: the Save clicks so far.
handleSaveEdit ==
    /\ EditingRowShown
    /\ list.editedRecord # NoRow
    /\ list.saves < MaxSaves
    /\ Cardinality(pending) < MaxPending
    /\ pending' = pending \cup {SaveCall(list.editedRecord, list.records)}
    /\ list' = [list EXCEPT !.saves = @ + 1]
    /\ last' = Step("handleSaveEdit", {})
    /\ UNCHANGED <<store, form, app, events, elapsed, sid, hist>>

\* records.map(record => record.id === editedRecord.id ? editedRecord : record)
WithRow(records, editedRecord) ==
    [k \in 1..Len(records) |->
        IF records[k].id = editedRecord.id THEN editedRecord ELSE records[k]]

\* Lines 271-284: the store has run update(editedRecord).eq('id',
\* editedRecord.id) (an update that matches no row succeeds too).
saveSucceeded(p) ==
    /\ p \in pending /\ p.op = "save"
    /\ IF p.editedRecord.id \in DOMAIN store /\ store[p.editedRecord.id] \in Rows
       THEN /\ store' = [store EXCEPT ![p.editedRecord.id] = p.editedRecord]
            /\ events' = Emit("UPDATE", p.editedRecord.id)
       ELSE UNCHANGED <<store, events>>
    /\ list' = [list EXCEPT !.records = WithRow(p.records, p.editedRecord),
                            !.editingId = NULL,
                            !.editedRecord = NoRow]
    /\ pending' = pending \ {p}
    /\ last' = Step("saveSucceeded", {"Record updated"})
    /\ UNCHANGED <<form, app, elapsed, sid, hist>>

\* Lines 285-292: the catch block sets no state.
SaveFailure(l) == l

\* Lines 271 and 285-292: the store answered with an error.
saveFailed(p) ==
    /\ p \in pending /\ p.op = "save"
    /\ list' = SaveFailure(list)
    /\ pending' = pending \ {p}
    /\ last' = Step("saveFailed", {"Update failed"})
    /\ UNCHANGED <<store, form, app, events, elapsed, sid, hist>>

-----------------------------------------------------------------------------
(* EpisodesList: sorting *)

SortColumns == {"id", "episode_interview_file_name"}

\* What a cell holds: null, numeric strings, plain text, and date strings
\* (in the format of Date.prototype.toUTCString, which every engine parses).
D1 == "Sat, 02 Mar 2024 00:00:00 GMT"
D2 == "Fri, 07 Feb 2025 00:00:00 GMT"
CellValues == {NULL, "9", "10", "apple", "hello", "Zebra", D1, D2}

\* The browser.  lenientDates: new Date("9") is a valid date (September 1st,
\* 2001), as the engines with a fallback parser have it, or an invalid one.
\* order: how Array.prototype.sort calls its comparator for a later element
\* x and an earlier element e: comparefn(x, e), or comparefn(e, x).
Engines == [lenientDates : BOOLEAN, order : {"later,earlier", "earlier,later"}]

\* !isNaN(Number(v)) and Number(v), for a non-null cell.
IsNumber(v) == \E n \in 0..MaxNumber : ToString(n) = v
NumberOf(v) == CHOOSE n \in 0..MaxNumber : ToString(n) = v

\* !isNaN(new Date(v).getTime()) and the day new Date(v) falls on (as
\* yyyymmdd, which orders as getTime() does).
IsDate(v) == v \in {D1, D2} \/ (IsNumber(v) /\ list.engine.lenientDates)
TimeOf(v) ==
    CASE v = D1 -> 20240302
      [] v = D2 -> 20250207
      [] OTHER  -> 20010001 + 100 * NumberOf(v)

\* String(v).toLowerCase()
ToLowerCase(v) ==
    CASE v = "Zebra" -> "zebra"
      [] v = D1 -> "sat, 02 mar 2024 00:00:00 gmt"
      [] v = D2 -> "fri, 07 feb 2025 00:00:00 gmt"
      [] OTHER -> v

\* The strings of the model in the order of their code units; on the
\* lowercased ones this is the collation of localeCompare (digits before
\* letters, letters alphabetically).
Collation ==
    <<"0", "1", "10", "2", "3", "4", "5", "6", "7", "8", "9", "Zebra", "apple",
      "fri, 07 feb 2025 00:00:00 gmt", "hello", "sat, 02 mar 2024 00:00:00 gmt",
      "zebra">>

RankOf(str) == CHOOSE i \in 1..Len(Collation) : Collation[i] = str

Sign(n) == IF n < 0 THEN -1 ELSE IF n > 0 THEN 1 ELSE 0

\* A comparison by code units, without toLowerCase().
localeCompareByCodeUnits(strA, strB) ==
    Sign(RankOf(IF strA \in {D1, D2} THEN ToLowerCase(strA) ELSE strA)
         - RankOf(IF strB \in {D1, D2} THEN ToLowerCase(strB) ELSE strB))

\* Lines 145-148: strA.localeCompare(strB) on the lowercased strings.
localeCompare(strA, strB) == Sign(RankOf(ToLowerCase(strA)) - RankOf(ToLowerCase(strB)))

\* compareValues with null ranked after every value in ascending order.
compareValuesNullsLast(a, b, isAsc) ==
    IF a = NULL THEN (IF isAsc THEN 1 ELSE -1)
    ELSE IF b = NULL THEN (IF isAsc THEN -1 ELSE 1)
    ELSE IF IsNumber(a) /\ IsNumber(b)
         THEN (IF isAsc THEN NumberOf(a) - NumberOf(b) ELSE NumberOf(b) - NumberOf(a))
    ELSE IF IsDate(a) /\ IsDate(b)
         THEN (IF isAsc THEN TimeOf(a) - TimeOf(b) ELSE TimeOf(b) - TimeOf(a))
    ELSE IF isAsc THEN localeCompare(a, b) ELSE localeCompare(b, a)

\* Lines 128-149.
compareValues(a, b, isAsc) ==
    IF a = NULL THEN (IF isAsc THEN -1 ELSE 1)
    ELSE IF b = NULL THEN (IF isAsc THEN 1 ELSE -1)
    ELSE IF IsNumber(a) /\ IsNumber(b)
         THEN (IF isAsc THEN NumberOf(a) - NumberOf(b) ELSE NumberOf(b) - NumberOf(a))
    ELSE IF IsDate(a) /\ IsDate(b)
         THEN (IF isAsc THEN TimeOf(a) - TimeOf(b) ELSE TimeOf(b) - TimeOf(a))
    ELSE IF isAsc THEN localeCompare(a, b) ELSE localeCompare(b, a)

Unsorted == [column |-> NULL, direction |-> NULL]

\* The cycle of handleSort without the reset after "desc".
nextDirectionNoReset(direction) ==
    IF direction = "asc" THEN "desc" ELSE "asc"

\* Lines 403-405: null -> asc -> desc -> null.
nextDirection(direction) ==
    CASE direction = NULL  -> "asc"
      [] direction = "asc" -> "desc"
      [] OTHER             -> NULL

\* The updater of handleSort keeping the direction on a different column.
handleSortKeepingDirection(prevState, column) ==
    IF prevState.column = column
    THEN IF nextDirection(prevState.direction) = NULL THEN Unsorted
         ELSE [column |-> column, direction |-> nextDirection(prevState.direction)]
    ELSE [column |-> column,
          direction |-> IF prevState.direction = NULL THEN "asc" ELSE prevState.direction]

\* Lines 400-409: the updater handleSort passes to setSortState.
handleSortUpdater(prevState, column) ==
    IF prevState.column = column
    THEN IF nextDirection(prevState.direction) = NULL THEN Unsorted
         ELSE [column |-> column, direction |-> nextDirection(prevState.direction)]
    ELSE [column |-> column, direction |-> "asc"]

\* Array.prototype.sort(comparefn), on a copy: a stable insertion (or merge)
\* of the rows, one by one in their order, where a row x goes before an
\* earlier row e when the comparator says so in the engine's calling order.
\* With a consistent comparator the outcome is the one stable sorted order.
Before(x, e, column, isAsc) ==
    IF list.engine.order = "later,earlier"
    THEN compareValues(x[column], e[column], isAsc) < 0
    ELSE compareValues(e[column], x[column], isAsc) > 0

InsertAt(s, p, x) == SubSeq(s, 1, p) \o <<x>> \o SubSeq(s, p + 1, Len(s))

InsertPositions(s, x, column, isAsc) ==
    {p \in 0..Len(s) :
        /\ p = 0 \/ ~Before(x, s[p], column, isAsc)
        /\ p = Len(s) \/ Before(x, s[p + 1], column, isAsc)}

RECURSIVE SortOutcomes(_, _, _, _)
SortOutcomes(s, n, column, isAsc) ==
    IF n = 0 THEN {<<>>}
    ELSE UNION {{InsertAt(t, p, s[n]) : p \in InsertPositions(t, s[n], column, isAsc)} :
                    t \in SortOutcomes(s, n - 1, column, isAsc)}

\* Lines 430-438: the memo sortedRecords (what an engine can return for it).
sortedRecords(records, sortState) ==
    IF sortState.column = NULL \/ sortState.direction = NULL
    THEN {records}
    ELSE SortOutcomes(records, Len(records), sortState.column,
                      sortState.direction = "asc")

\* Lines 399-410 and 430-438: a click on the header of a column, and the
\* render that follows.  trail: the columns clicked since the unsorted state.
handleSort(column) ==
    /\ list.sortState = Unsorted \/ Len(list.trail) < MaxClicks
    /\ LET next == handleSortUpdater(list.sortState, column)
       IN \E shown \in sortedRecords(list.records, next) :
            list' = [list EXCEPT
                        !.sortState = next,
                        !.displayed = shown,
                        !.trail = IF list.sortState = Unsorted THEN <<column>>
                                  ELSE Append(@, column)]
    /\ last' = Step("handleSort", {})
    /\ UNCHANGED <<store, form, app, pending, events, elapsed, sid, hist>>

-----------------------------------------------------------------------------
(* EpisodesList: the order of the columns *)

\* part_000, lines 45-75.
PREDEFINED_COLUMN_ORDER ==
    <<"created_at", "episode_interview_file_name", "episode_interview_file", "id",
      "episode_number", "source_document_file_name", "source_document",
      "episode_interview_full_script", "episode_interview_script_1",
      "episode_interview_script_2", "episode_interview_script_3",
      "episode_interview_script_4", "episode_interview_script_status",
      "episode_text_files_status", "podcast_status", "episode_titles",
      "episode_description", "episode_intro_transcript", "linkedin_post_copy",
      "x_post_copy", "podcast_excerpt", "show_notes", "episode_intro_audio_file",
      "master_audio_file", "episode_cover_art", "scheduled_date", "unix_timestamp",
      "publish_date", "publish_time">>

\* PREDEFINED_COLUMN_ORDER.includes(col)
IsPredefined(col) == \E i \in 1..Len(PREDEFINED_COLUMN_ORDER) : PREDEFINED_COLUMN_ORDER[i] = col

\* Columns the table is seen to have: some of the predefined ones, and some
\* the predefined order does not know.
ObservedColumns ==
    {"id", "created_at", "episode_interview_file_name", "podcast_status",
     "notes", "Zeta", "alpha", "_tmp"}

\* Array.prototype.sort() without a comparator orders strings by their code
\* units: the columns of the model that are not predefined, in that order
\* ("Z" is 90, "_" is 95, "a" is 97, "n" is 110).
CodeUnitOrder == <<"Zeta", "_tmp", "alpha", "notes">>

Includes(seq, x) == \E i \in 1..Len(seq) : seq[i] = x

\* orderedColumns without the .sort() of the remaining columns.
orderedColumnsUnsorted(records, availableColumns) ==
    IF Len(records) = 0 THEN <<>>
    ELSE LET filteredColumns ==
                 SelectSeq(PREDEFINED_COLUMN_ORDER, LAMBDA col : Includes(availableColumns, col))
             remainingColumns ==
                 SelectSeq(availableColumns, LAMBDA col : ~IsPredefined(col))
         IN filteredColumns \o remainingColumns

\* Lines 413-427: the memo orderedColumns.
orderedColumns(records, availableColumns) ==
    IF Len(records) = 0 THEN <<>>
    ELSE LET filteredColumns ==
                 SelectSeq(PREDEFINED_COLUMN_ORDER, LAMBDA col : Includes(availableColumns, col))
             remaining == SelectSeq(availableColumns, LAMBDA col : ~IsPredefined(col))
             remainingColumns ==
                 SelectSeq(CodeUnitOrder, LAMBDA col : Includes(remaining, col))
         IN filteredColumns \o remainingColumns

\* Lines 413-427 and 522-534: the render that shows the header of the table.
renderColumns ==
    /\ ~list.rendered
    /\ list' = [list EXCEPT
                  !.orderedColumns = orderedColumns(list.records, list.availableColumns),
                  !.rendered = TRUE]
    /\ last' = Step("renderColumns", {})
    /\ UNCHANGED <<store, form, app, pending, events, elapsed, sid, hist>>

-----------------------------------------------------------------------------
(* PodcastForm: mounting and unmounting *)

\* The form once its mount effects have run: the interval that dispatches
\* 'episodes-list-auto-refresh' is started (podcast-form.tsx, 235-242), the
\* INSERT and UPDATE channels are subscribed (478-655) and the listener of
\* 'episodes-list-refresh' is added (305).
MountedForm ==
    [mounted |-> TRUE, subscribed |-> TRUE, refreshIntervalRef |-> "interval"] @@ InitForm

\* Lines 236-242: the auto-refresh interval fires.
autoRefresh ==
    /\ form.refreshIntervalRef # NULL
    /\ last' = StepDispatching("autoRefresh", {}, <<"episodes-list-auto-refresh">>)
    /\ UNCHANGED <<store, form, app, list, pending, events, elapsed, sid, hist>>

\* unmount leaving the two channels subscribed.
unmountKeepingSubscriptions ==
    /\ form.mounted
    /\ form' = [ClearTimers(form) EXCEPT !.mounted = FALSE, !.refreshIntervalRef = NULL]
    /\ last' = Step("unmount", {})
    /\ UNCHANGED <<store, app, list, pending, events, elapsed, sid, hist>>

\* The component unmounts: the cleanups of its effects run.  Lines 245-250
\* clear the auto-refresh interval, 282-292 and 662-672 clear the poll
\* interval and the timeout, 308 removes the listener of
\* 'episodes-list-refresh', 659-660 unsubscribe the two channels.  Requests
\* in flight are not cancelled.
unmount ==
    /\ form.mounted
    /\ form' = [ClearTimers(form) EXCEPT !.mounted = FALSE, !.subscribed = FALSE,
                                         !.refreshIntervalRef = NULL]
    /\ last' = Step("unmount", {})
    /\ UNCHANGED <<store, app, list, pending, events, elapsed, sid, hist>>

-----------------------------------------------------------------------------
(* ScriptApprovalDialog, as PodcastForm renders it (podcast-form.tsx, lines
   1377-1381: isOpen, onConfirm = confirmApproval, onCancel = cancelApproval).
   The sources hold two components of that name.  "AlertDialog" is part_000,
   lines 1553-1585: a controlled dialog whose Root reports every request to
   change the open state through onOpenChange={onCancel} (1559); its Yes and
   No buttons are the Action and Cancel parts of the dialog, which request
   the closed state after the click handler of the button has run.
   "ScriptLinks" is script-approval-dialog.tsx: it takes scriptLinks,
   episodeName and onApprove, renders the Approve button only when onApprove
   is given (89-96), and starts an interval when it mounts (17-32). *)

DialogVersions == {"AlertDialog", "ScriptLinks"}

\* The form with the dialog it renders: which component the import resolves
\* to, and the handle of the interval that component holds.
FormWithDialog(version) ==
    [dialog |-> version,
     dialogRefreshInterval |-> IF version = "ScriptLinks" THEN "interval" ELSE NULL]
    @@ InitForm

\* What a step did, with the props of the dialog it called and the window
\* events it dispatched.
StepInvoking(op, toasts, invoked, dispatched) ==
    [op |-> op, toasts |-> toasts, emitted |-> <<>>,
     invoked |-> invoked, dispatched |-> dispatched]

\* onOpenChange of the Root, part_000 line 1559: a request for the closed
\* state while the open prop is true calls onCancel.
onOpenChange(f) == [f EXCEPT !.isApprovalDialogOpen = FALSE]

\* part_000, lines 1574-1578: the Yes button.  onClick={onConfirm} runs
\* confirmApproval up to its await (podcast-form.tsx 1026-1040); then the
\* Action part requests the closed state and the Root calls onCancel.
clickYes ==
    /\ form.dialog = "AlertDialog" /\ form.isApprovalDialogOpen
    /\ LET f1 == [form EXCEPT !.scriptStatus = "Approved", !.isApprovalDialogOpen = FALSE]
           calls == IF f1.currentEpisodeId # NULL
                    THEN {Call("approve", NULL, sid, f1.currentEpisodeId, f1.isSubmitting)}
                    ELSE {}
       IN /\ Cardinality(pending \cup calls) <= MaxPending
          /\ form' = Render(form, onOpenChange(f1))
          /\ pending' = pending \cup calls
          /\ last' = StepInvoking("clickYes",
                                  IF calls = {} THEN {"Scripts Approved"} ELSE {},
                                  <<"onConfirm", "onCancel">>, <<>>)
    /\ UNCHANGED <<store, app, list, events, elapsed, sid, hist>>

\* part_000, lines 1569-1573: the No button.  onClick={onCancel}, then the
\* Cancel part requests the closed state and the Root calls onCancel again.
clickNo ==
    /\ form.dialog = "AlertDialog" /\ form.isApprovalDialogOpen
    /\ form' = onOpenChange([form EXCEPT !.isApprovalDialogOpen = FALSE])
    /\ last' = StepInvoking("clickNo", {}, <<"onCancel", "onCancel">>, <<>>)
    /\ UNCHANGED <<store, app, list, pending, events, elapsed, sid, hist>>

\* part_000, line 1559: the Escape key requests the closed state.
pressEscape ==
    /\ form.dialog = "AlertDialog" /\ form.isApprovalDialogOpen
    /\ form' = onOpenChange(form)
    /\ last' = StepInvoking("pressEscape", {}, <<"onCancel">>, <<>>)
    /\ UNCHANGED <<store, app, list, pending, events, elapsed, sid, hist>>

\* script-approval-dialog.tsx, lines 17-32: the interval of the mounted
\* component fires and dispatches 'episodes-list-auto-refresh'.
triggerRefresh ==
    /\ form.dialogRefreshInterval # NULL
    /\ last' = StepInvoking("triggerRefresh", {}, <<>>, <<"episodes-list-auto-refresh">>)
    /\ UNCHANGED <<store, form, app, list, pending, events, elapsed, sid, hist>>

-----------------------------------------------------------------------------
(* The system *)

Init ==
    /\ store = [i \in Ids |-> NoRow]
    /\ form = InitForm
    /\ app = NoSelection
    /\ list = [selectedRecordId |-> NULL]
    /\ pending = {}
    /\ events = {}
    /\ elapsed = 0
    /\ sid = 0
    /\ hist = InitHist
    /\ last = Step("Init", {})

\* The first element of a webhook response: a row as the workflow wrote it.
Items == {Row(ToString(i), n, i, LinksOf(ToString(i), sh), st) :
            i \in 1..MaxRows, n \in Names, sh \in Shapes, st \in StatusTriples}

Next ==
    \/ \E i \in Ids, n \in Names, sh \in Shapes, st \in StatusTriples :
            ExternalInsert(i, n, sh, st)
    \/ \E i \in Ids, sh \in Shapes, st \in StatusTriples : ExternalUpdate(i, sh, st)
    \/ \E file \in Files : handleFileChange(file)
    \/ \E n \in TypedNames : onSubmit(n)
    \/ \E p \in pending, r \in Rows : existingCheckFound(p, r)
    \/ \E p \in pending : existingCheckError(p)
    \/ \E p \in pending : existingCheckEmpty(p)
    \/ \E p \in pending, item \in Items : webhookItem(p, item)
    \/ \E p \in pending : webhookFailed(p)
    \/ handleEpisodesListRefresh
    \/ \E p \in pending : checkForNewRowError(p)
    \/ \E p \in pending : checkForNewRowEmpty(p)
    \/ \E p \in pending, r \in Rows : checkForNewRowFound(p, r)
    \/ \E e \in events : insertCallback(e)
    \/ \E e \in events : updateCallback(e)
    \/ Tick
    \/ handleApproveScripts
    \/ cancelApproval
    \/ confirmApproval
    \/ \E p \in pending : approvalWritten(p)
    \/ \E p \in pending : approvalFailed(p)
    \/ \E record \in Rows : selectRecord(record)

Spec == Init /\ [][Next]_vars

-----------------------------------------------------------------------------
(* The system while the webhook endpoint is unreachable or answers with an
   error: every webhook request fails.  The list is left alone (no row is
   clicked) and no approval is made. *)

NextWebhookDown ==
    \/ \E i \in Ids, n \in Names, sh \in Shapes, st \in StatusTriples :
            ExternalInsert(i, n, sh, st)
    \/ \E i \in Ids, sh \in Shapes, st \in StatusTriples : ExternalUpdate(i, sh, st)
    \/ \E file \in Files : handleFileChange(file)
    \/ \E n \in TypedNames : onSubmit(n)
    \/ \E p \in pending, r \in Rows : existingCheckFound(p, r)
    \/ \E p \in pending : existingCheckError(p)
    \/ \E p \in pending : existingCheckEmpty(p)
    \/ \E p \in pending : webhookFailed(p)
    \/ handleEpisodesListRefresh
    \/ \E p \in pending : checkForNewRowError(p)
    \/ \E p \in pending : checkForNewRowEmpty(p)
    \/ \E p \in pending, r \in Rows : checkForNewRowFound(p, r)
    \/ \E e \in events : insertCallback(e)
    \/ \E e \in events : updateCallback(e)
    \/ Tick

SpecWebhookDown == Init /\ [][NextWebhookDown]_vars

-----------------------------------------------------------------------------
(* The submission session on its own (no row of the list is clicked and no
   approval is made), with the workflow also seen to write script 4 before
   scripts 1-3. *)

NextSnapshots ==
    \/ \E i \in Ids, n \in Names, sh \in SnapshotShapes, st \in StatusTriples :
            ExternalInsert(i, n, sh, st)
    \/ \E i \in Ids, sh \in SnapshotShapes, st \in StatusTriples :
            ExternalUpdate(i, sh, st)
    \/ \E file \in Files : handleFileChange(file)
    \/ \E n \in TypedNames : onSubmit(n)
    \/ \E p \in pending, r \in Rows : existingCheckFound(p, r)
    \/ \E p \in pending : existingCheckError(p)
    \/ \E p \in pending : existingCheckEmpty(p)
    \/ \E p \in pending, item \in Items : webhookItem(p, item)
    \/ \E p \in pending : webhookFailed(p)
    \/ handleEpisodesListRefresh
    \/ \E p \in pending : checkForNewRowError(p)
    \/ \E p \in pending : checkForNewRowEmpty(p)
    \/ \E p \in pending, r \in Rows : checkForNewRowFound(p, r)
    \/ \E e \in events : insertCallback(e)
    \/ \E e \in events : updateCallback(e)
    \/ Tick

SpecSnapshots == Init /\ [][NextSnapshots]_vars

-----------------------------------------------------------------------------
(* The submission session with a user who also types names that are too
   short and picks files that are no PDF or are empty. *)

TypedAnyNames == {"", "ab", "ep1"}

NextValidation ==
    \/ \E i \in Ids, n \in Names, sh \in Shapes, st \in StatusTriples :
            ExternalInsert(i, n, sh, st)
    \/ \E i \in Ids, sh \in Shapes, st \in StatusTriples : ExternalUpdate(i, sh, st)
    \/ \E file \in PickedFiles : handleFileChange(file)
    \/ \E n \in TypedAnyNames : onSubmit(n)
    \/ \E n \in TypedAnyNames : handleSubmitInvalid(n)
    \/ \E p \in pending, r \in Rows : existingCheckFound(p, r)
    \/ \E p \in pending : existingCheckError(p)
    \/ \E p \in pending : existingCheckEmpty(p)
    \/ \E p \in pending : webhookFailed(p)
    \/ handleEpisodesListRefresh
    \/ \E p \in pending : checkForNewRowError(p)
    \/ \E p \in pending : checkForNewRowEmpty(p)
    \/ \E p \in pending, r \in Rows : checkForNewRowFound(p, r)
    \/ \E e \in events : insertCallback(e)
    \/ \E e \in events : updateCallback(e)
    \/ Tick

SpecValidation == Init /\ [][NextValidation]_vars

-----------------------------------------------------------------------------
(* The list at work on a table that holds rows when the page is opened: the
   list fetches, the user clicks rows and deletes rows, and other clients
   delete rows.  No episode is submitted.  A row's name may be empty (every
   column of a row can be edited in the list, and other clients write to the
   table). *)

ListNames == {"ep1", ""}
ListShapes == {"s123", "all"}

InitList ==
    /\ \E names \in [ListIds -> ListNames], sh \in ListShapes :
          store = [i \in ListIds |->
                      Row(i, names[i], CHOOSE c \in 1..MaxListRows : ToString(c) = i,
                          LinksOf(i, sh), <<NULL, NULL, NULL>>)]
    /\ form = InitForm
    /\ app = NoSelection
    /\ list = InitListView
    /\ sid = 0
    /\ pending = {FetchCall(TRUE, FALSE, <<>>)}
    /\ events = {}
    /\ elapsed = 0
    /\ hist = InitHist
    /\ last = Step("Init", {})

NextList ==
    \/ \E i \in ListIds : ExternalDelete(i)
    \/ \E showLoading \in BOOLEAN : fetchData(showLoading)
    \/ \E p \in pending : fetchServed(p)
    \/ \E p \in pending : fetchSucceeded(p)
    \/ \E p \in pending : fetchFailed(p)
    \/ \E k \in 1..Len(list.records) : TableShown /\ selectRecord(list.records[k])
    \/ \E i \in ListIds : handleDelete(i)
    \/ \E i \in ListIds : handleDeleteDeclined(i)
    \/ \E p \in pending : deleteSucceeded(p)
    \/ \E p \in pending : deleteFailed(p)

SpecList == InitList /\ [][NextList]_vars

-----------------------------------------------------------------------------
(* The list at work on a table of rows named "ep1": the list fetches (the
   first fetch, then the refreshes), the user edits rows in place, and
   other clients delete rows. *)

InitEdit ==
    /\ store = [i \in ListIds |->
                  Row(i, "ep1", CHOOSE c \in 1..MaxListRows : ToString(c) = i,
                      LinksOf(i, "all"), <<NULL, NULL, NULL>>)]
    /\ form = InitForm
    /\ app = NoSelection
    /\ list = [saves |-> 0] @@ InitListView
    /\ sid = 0
    /\ pending = {FetchCall(TRUE, FALSE, <<>>)}
    /\ events = {}
    /\ elapsed = 0
    /\ hist = InitHist
    /\ last = Step("Init", {})

NextEdit ==
    \/ \E i \in ListIds : ExternalDelete(i)
    \/ fetchData(FALSE)
    \/ \E p \in pending : fetchServed(p)
    \/ \E p \in pending : fetchSucceeded(p)
    \/ \E p \in pending : fetchFailed(p)
    \/ \E k \in 1..Len(list.records) : handleEdit(list.records[k])
    \/ handleCancelEdit
    \/ \E key \in EditedKeys : \E value \in TypedValues(key) : handleEditChange(key, value)
    \/ handleSaveEdit
    \/ \E p \in pending : saveSucceeded(p)
    \/ \E p \in pending : saveFailed(p)

SpecEdit == InitEdit /\ [][NextEdit]_vars

-----------------------------------------------------------------------------
(* The list showing a result set, in a browser: the user clicks the column
   headers. *)

\* The result sets: rows in fetch order, numbered by their id.
ResultSets ==
    UNION {{[i \in 1..n |-> [id |-> ToString(i), episode_interview_file_name |-> vals[i]]] :
                vals \in [1..n -> CellValues]} : n \in 0..MaxSortRows}

InitSort ==
    /\ store = [i \in Ids |-> NoRow]
    /\ form = InitForm
    /\ app = NoSelection
    /\ \E records \in ResultSets, engine \in Engines :
          list = [selectedRecordId |-> NULL, records |-> records,
                  sortState |-> Unsorted, displayed |-> records,
                  trail |-> <<>>, engine |-> engine]
    /\ pending = {}
    /\ events = {}
    /\ elapsed = 0
    /\ sid = 0
    /\ hist = InitHist
    /\ last = Step("Init", {})

NextSort == \E column \in SortColumns : handleSort(column)

SpecSort == InitSort /\ [][NextSort]_vars

-----------------------------------------------------------------------------
(* The list after a fetch: the columns of the first fetched row, in the
   order Object.keys gives them, and the header the render shows. *)

\* The sequences without repetition of at most n elements of set S.
KeyLists(S, n) ==
    {seq \in UNION {[1..k -> S] : k \in 0..n} :
        \A i, j \in 1..Len(seq) : i # j => seq[i] # seq[j]}

\* The list holds rows only after a fetch that returned rows, and such a
\* fetch sets the columns; rows can disappear again (a fetch of the emptied
\* table leaves the columns as they are).
InitColumns ==
    /\ store = [i \in Ids |-> NoRow]
    /\ form = InitForm
    /\ app = NoSelection
    /\ \E availableColumns \in KeyLists(ObservedColumns, MaxColumns), n \in 0..1 :
          /\ n = 1 => Len(availableColumns) > 0
          /\ list = [selectedRecordId |-> NULL,
                     records |-> [i \in 1..n |-> [c \in {availableColumns[k] :
                                                     k \in 1..Len(availableColumns)} |-> NULL]],
                     availableColumns |-> availableColumns,
                     orderedColumns |-> <<>>,
                     rendered |-> FALSE]
    /\ pending = {}
    /\ events = {}
    /\ elapsed = 0
    /\ sid = 0
    /\ hist = InitHist
    /\ last = Step("Init", {})

NextColumns == renderColumns

SpecColumns == InitColumns /\ [][NextColumns]_vars

-----------------------------------------------------------------------------
(* The approval dialog on its own: rows appear in the table, the user
   selects one, clicks Approve and answers the dialog. *)

InitDialog ==
    /\ store = [i \in Ids |-> NoRow]
    /\ \E version \in DialogVersions : form = FormWithDialog(version)
    /\ app = NoSelection
    /\ list = [selectedRecordId |-> NULL]
    /\ pending = {}
    /\ events = {}
    /\ elapsed = 0
    /\ sid = 0
    /\ hist = InitHist
    /\ last = StepInvoking("Init", {}, <<>>, <<>>)

NextDialog ==
    \/ \E i \in Ids, n \in Names, sh \in Shapes, st \in StatusTriples :
            ExternalInsert(i, n, sh, st)
    \/ \E i \in Ids, sh \in Shapes, st \in StatusTriples : ExternalUpdate(i, sh, st)
    \/ \E record \in Rows : selectRecord(record)
    \/ handleApproveScripts
    \/ clickYes
    \/ clickNo
    \/ pressEscape
    \/ triggerRefresh

SpecDialog == InitDialog /\ [][NextDialog]_vars

-----------------------------------------------------------------------------
(* The list left to itself while other clients change the table.  No user
   acts.  fetchData(false) is called by the listener of
   'episodes-list-auto-refresh' (part_000, 222-228), which the interval of
   PodcastForm dispatches every second for as long as the form is mounted
   (podcast-form.tsx, 235-251), and by the change subscription (208-219):
   so a refresh that can start does start.  A request that was sent is
   answered, and an answer arrives. *)

InitLive ==
    /\ store = [i \in Ids |-> NoRow]
    /\ form = InitForm
    /\ app = NoSelection
    /\ list = InitListView
    /\ sid = 0
    /\ pending = {FetchCall(TRUE, FALSE, <<>>)}
    /\ events = {}
    /\ elapsed = 0
    /\ hist = InitHist
    /\ last = Step("Init", {})

NextLive ==
    \/ \E i \in Ids : ExternalInsert(i, "ep1", "s123", <<NULL, NULL, NULL>>)
    \/ \E i \in Ids : ExternalUpdate(i, "all", <<NULL, NULL, NULL>>)
    \/ \E i \in Ids : ExternalDelete(i)
    \/ fetchData(FALSE)
    \/ \E p \in pending : fetchServed(p)
    \/ \E p \in pending : fetchSucceeded(p)
    \/ \E p \in pending : fetchFailed(p)

SpecLive ==
    /\ InitLive /\ [][NextLive]_vars
    /\ WF_vars(fetchData(FALSE))
    /\ WF_vars(\E p \in pending : fetchServed(p))
    /\ WF_vars(\E p \in pending : fetchSucceeded(p) \/ fetchFailed(p))

-----------------------------------------------------------------------------
(* Overlapping refreshes of the list over a table that only grows, from
   the state in which the fetch of the mount effect has answered with the
   empty table.  Every fetch is then a fetchData(false) of the change
   subscription or of the auto-refresh listener; the store answers them in
   the order of their issue, and no row is changed or removed, so the
   answer to a later-issued fetch holds every row of the answer to an
   earlier-issued one: an answer with fewer rows than the list holds is the
   answer to a fetch issued before the one whose answer the list holds. *)

InitFetches ==
    /\ store = [i \in ListIds |-> NoRow]
    /\ form = InitForm
    /\ app = NoSelection
    /\ list = FetchSuccess(InitListView, <<>>)
    /\ sid = 0
    /\ pending = {}
    /\ events = {}
    /\ elapsed = 0
    /\ hist = InitHist
    /\ last = Step("Init", {})

NextFetches ==
    \/ \E i \in ListIds, n \in Names : ExternalInsert(i, n, "s123", <<NULL, NULL, NULL>>)
    \/ fetchData(FALSE)
    \/ \E p \in pending : fetchServed(p)
    \/ \E p \in pending : fetchSucceeded(p)
    \/ \E p \in pending : fetchFailed(p)

SpecFetches == InitFetches /\ [][NextFetches]_vars

-----------------------------------------------------------------------------
(* The submission session of a form that can unmount.  The user acts, the
   listener runs and change events are delivered only while the component
   is mounted, its listener added and its channels subscribed; answers to
   requests in flight arrive whether it is mounted or not. *)

InitUnmount ==
    /\ store = [i \in Ids |-> NoRow]
    /\ form = MountedForm
    /\ app = NoSelection
    /\ list = [selectedRecordId |-> NULL]
    /\ pending = {}
    /\ events = {}
    /\ elapsed = 0
    /\ sid = 0
    /\ hist = InitHist
    /\ last = Step("Init", {})

NextUnmount ==
    \/ \E i \in Ids, n \in Names, sh \in Shapes, st \in StatusTriples :
            ExternalInsert(i, n, sh, st)
    \/ \E i \in Ids, sh \in Shapes, st \in StatusTriples : ExternalUpdate(i, sh, st)
    \/ \E file \in Files : form.mounted /\ handleFileChange(file)
    \/ \E n \in TypedNames : form.mounted /\ onSubmit(n)
    \/ \E p \in pending, r \in Rows : existingCheckFound(p, r)
    \/ \E p \in pending : existingCheckError(p)
    \/ \E p \in pending : existingCheckEmpty(p)
    \/ \E p \in pending, item \in Items : webhookItem(p, item)
    \/ \E p \in pending : webhookFailed(p)
    \/ form.mounted /\ handleEpisodesListRefresh
    \/ \E p \in pending : checkForNewRowError(p)
    \/ \E p \in pending : checkForNewRowEmpty(p)
    \/ \E p \in pending, r \in Rows : checkForNewRowFound(p, r)
    \/ \E e \in events : form.subscribed /\ insertCallback(e)
    \/ \E e \in events : form.subscribed /\ updateCallback(e)
    \/ Tick
    \/ autoRefresh
    \/ unmount

SpecUnmount == InitUnmount /\ [][NextUnmount]_vars

-----------------------------------------------------------------------------
(* One submission after another: the session actions (no row of the list is
   clicked and no approval is made), with two names typed and MaxSessions
   submissions accepted. *)

NextSessions ==
    \/ \E i \in Ids, n \in Names, sh \in Shapes :
            ExternalInsert(i, n, sh, <<NULL, NULL, NULL>>)
    \/ \E i \in Ids, sh \in Shapes : ExternalUpdate(i, sh, <<NULL, NULL, NULL>>)
    \/ \E file \in Files : handleFileChange(file)
    \/ \E n \in Names : onSubmitWithin(n, MaxSessions)
    \/ \E p \in pending, r \in Rows : existingCheckFound(p, r)
    \/ \E p \in pending : existingCheckError(p)
    \/ \E p \in pending : existingCheckEmpty(p)
    \/ \E p \in pending, item \in Items : webhookItem(p, item)
    \/ \E p \in pending : webhookFailed(p)
    \/ handleEpisodesListRefresh
    \/ \E p \in pending : checkForNewRowError(p)
    \/ \E p \in pending : checkForNewRowEmpty(p)
    \/ \E p \in pending, r \in Rows : checkForNewRowFound(p, r)
    \/ \E e \in events : insertCallback(e)
    \/ \E e \in events : updateCallback(e)
    \/ Tick

SpecSessions == Init /\ [][NextSessions]_vars

-----------------------------------------------------------------------------
(* An approval followed by another submission: the table may come to hold
   two rows, the workflow inserts rows with all their scripts and no status,
   and the webhook endpoint is unreachable (the sessions resolve through the
   existence check, the poll and the change events). *)

InitReapprove ==
    /\ store = [i \in ListIds |-> NoRow]
    /\ form = InitForm
    /\ app = NoSelection
    /\ list = [selectedRecordId |-> NULL]
    /\ pending = {}
    /\ events = {}
    /\ elapsed = 0
    /\ sid = 0
    /\ hist = InitHist
    /\ last = Step("Init", {})

NextReapprove ==
    \/ \E i \in ListIds, n \in Names : ExternalInsert(i, n, "all", <<NULL, NULL, NULL>>)
    \/ \E file \in Files : handleFileChange(file)
    \/ \E n \in Names : onSubmitWithin(n, MaxSessions)
    \/ \E p \in pending, r \in Rows : existingCheckFound(p, r)
    \/ \E p \in pending : existingCheckError(p)
    \/ \E p \in pending : existingCheckEmpty(p)
    \/ \E p \in pending : webhookFailed(p)
    \/ handleEpisodesListRefresh
    \/ \E p \in pending : checkForNewRowError(p)
    \/ \E p \in pending : checkForNewRowEmpty(p)
    \/ \E p \in pending, r \in Rows : checkForNewRowFound(p, r)
    \/ \E e \in events : insertCallback(e)
    \/ \E e \in events : updateCallback(e)
    \/ Tick
    \/ handleApproveScripts
    \/ cancelApproval
    \/ confirmApproval
    \/ \E p \in pending : approvalWritten(p)
    \/ \E p \in pending : approvalFailed(p)

SpecReapprove == InitReapprove /\ [][NextReapprove]_vars



-----------------------------------------------------------------------------
(* Properties *)

\* C1, as amended: when the existence check of a submission returns at least
\* one matching record, the webhook request of that submission is not sent,
\* the form stops loading in that very step, "Scripts Found!" is shown and
\* the form displays the script fields of the most recent matching record;
\* when the check fails instead, the webhook request is sent although a
\* matching record exists.
C1_ExistingRecordShortCircuit ==
    [][\A p \in pending \ pending' :
          (p.op = "existingCheck" /\ Matching(p.name) # {}) =>
              IF last'.op = "existingCheckError"
              THEN \E q \in pending' : q.op = "webhook" /\ q.sid = p.sid
              ELSE /\ ~\E q \in pending' : q.op = "webhook" /\ q.sid = p.sid
                   /\ (p.sid = sid => ~hist'.posted)
                   /\ ~form'.isSubmitting
                   /\ "Scripts Found!" \in last'.toasts
                   /\ \E r \in MostRecent(Matching(p.name)) :
                         form'.scriptLinks = [k \in ScriptKeys |-> OrNull(r.links[k])]
      ]_vars

\* C1, reached: the existence check found a record, the form shows it and
\* has stopped loading, and no webhook request was sent.
C1_Witness ==
    /\ last.op = "existingCheckFound"
    /\ ~form.isSubmitting /\ ~hist.posted
    /\ form.scriptLinks[S1] \in Urls
    /\ ~\E q \in pending : q.op = "webhook"

\* C1, as stated: whenever the existence check of a submission completes
\* while the table holds a matching record, no webhook request is sent and
\* the form stops loading.
C1_AsStated ==
    [][\A p \in pending \ pending' :
          (p.op = "existingCheck" /\ Matching(p.name) # {}) =>
              /\ ~\E q \in pending' : q.op = "webhook" /\ q.sid = p.sid
              /\ ~form'.isSubmitting
      ]_vars

\* C2: at most one resolution notification ("Success!", "Scripts Found!",
\* "Processing Timeout") is emitted for a submission.
C2_AtMostOneResolutionNotification == hist.toasts <= 1

\* C3: when the ceiling elapses with every call returned and no record
\* matching the submitted name, the step of the timers stops the loading
\* state, emits the timeout notification and clears the selected file.
C3_TimeoutResolves ==
    [][(/\ last'.op = "Tick"
        /\ Due(elapsed + 1)
        /\ pending = {}
        /\ Matching(form.currentEpisodeName) = {})
       => (/\ ~form'.isSubmitting
           /\ "Processing Timeout" \in last'.toasts
           /\ form'.selectedFile = NULL)
      ]_vars

\* C4: no session is still loading after the ceiling has elapsed with a
\* matching record found, no call in flight and no change event undelivered.
C4_NoSessionLoadsForever ==
    ~(/\ form.isSubmitting
      /\ Due(elapsed)
      /\ form.foundMatchingRecord
      /\ pending = {}
      /\ events = {})

\* C5: whenever the Approve button is enabled, the local script status is
\* not Approved, at least one of the four scripts exists and script #4 is
\* not blank.
C5_ApproveEnabledOnlyWithScript4 ==
    ~ApproveDisabled(form) =>
        /\ form.scriptStatus # "Approved"
        /\ \E k \in {S1, S2, S3, S4} : form.scriptLinks[k] \in Urls
        /\ form.scriptLinks[S4] \in Urls

\* C5, reached: scripts #1-#3 are displayed, script #4 is not, the status is
\* not Approved, and the Approve button is disabled.
C5_Witness ==
    /\ \A k \in {S1, S2, S3} : form.scriptLinks[k] \in Urls
    /\ form.scriptLinks[S4] \notin Urls
    /\ form.isScriptGenerated
    /\ form.scriptStatus # "Approved"
    /\ ApproveDisabled(form)

\* C6: the step that confirms the approval issues a store update for the
\* record whose scripts the form displays.
C6_ConfirmUpdatesDisplayedRecord ==
    [][last'.op = "confirmApproval" =>
          \E p \in pending' :
              /\ p.op = "approve"
              /\ UrlOf(p.id) = form.scriptLinks[S4]
      ]_vars

\* C7: confirming sets the local script status to Approved; when the update
\* fails, "Update Error" is shown and the local script, text-files and
\* podcast statuses are left as they are; when it succeeds the local
\* text-files and podcast statuses become Pending.
C7_FailedApprovalKeepsLocalApproval ==
    [][/\ last'.op = "confirmApproval" => form'.scriptStatus = "Approved"
       /\ last'.op = "approvalFailed" =>
             /\ "Update Error" \in last'.toasts
             /\ form'.scriptStatus = form.scriptStatus
             /\ form'.textFilesStatus = form.textFilesStatus
             /\ form'.podcastStatus = form.podcastStatus
             /\ store' = store
       /\ last'.op = "approvalWritten" =>
             /\ form'.textFilesStatus = "Pending"
             /\ form'.podcastStatus = "Pending"
      ]_vars

\* C7, reached: the update has failed, the local script status is Approved
\* and the local text-files and podcast statuses are still unset.
C7_Witness ==
    /\ last.op = "approvalFailed"
    /\ form.scriptStatus = "Approved"
    /\ form.textFilesStatus = NULL
    /\ form.podcastStatus = NULL

\* C8: while a session is loading with the progress message shown and the
\* table holds a matching record with script #4, a poll (the list-refresh
\* listener) that finds no call in flight queries the store.
C8_PartialProgressKeepsPolling ==
    [][(/\ last'.op = "handleEpisodesListRefresh"
        /\ form.isSubmitting
        /\ form.processingStatus = ProcessingMsg
        /\ ~form.isCheckingExistingRecords
        /\ pending = {}
        /\ \E r \in Matching(form.currentEpisodeName) : Truthy(r.links[S4]))
       => \E p \in pending' : p.op = "checkForNewRow"
      ]_vars

\* C9: once a submission has stopped loading, the delivery of an INSERT or
\* UPDATE event changes none of the displayed script fields, the three
\* statuses or isSubmitting, and emits no notification.
C9_EventsAfterResolvedAreNoOps ==
    [][(/\ last'.op \in {"insertCallback", "updateCallback"}
        /\ sid > 0
        /\ ~form.isSubmitting)
       => (/\ form'.scriptLinks = form.scriptLinks
           /\ form'.scriptStatus = form.scriptStatus
           /\ form'.textFilesStatus = form.textFilesStatus
           /\ form'.podcastStatus = form.podcastStatus
           /\ form'.isSubmitting = form.isSubmitting
           /\ last'.toasts = {})
      ]_vars

\* C10: while the container holds a selected row, the form displays the
\* script fields emitted for that row, and the submit button is disabled.
C10_SelectedRowDisplayed ==
    isEpisodeSelected =>
        /\ form.scriptLinks = SelectionEffect(form, app).scriptLinks
        /\ SubmitDisabled

\* C11: the failure of the webhook request leaves the session loading with
\* its latch as it was; and afterwards, while the session is loading, the
\* table holds a matching record with script #4 and no call is in flight, a
\* poll (the list-refresh listener) queries the store, and a query that
\* returns such a record stops the loading with "Success!".
C11_WebhookFailureFallsBackToPolling ==
    [][/\ last'.op = "webhookFailed" =>
             /\ form'.isSubmitting = form.isSubmitting
             /\ form'.foundMatchingRecord = form.foundMatchingRecord
       /\ (/\ last'.op = "handleEpisodesListRefresh"
           /\ form.isSubmitting /\ hist.posted
           /\ pending = {}
           /\ \E r \in MostRecent(Matching(form.currentEpisodeName)) : Truthy(r.links[S4]))
          => \E p \in pending' : p.op = "checkForNewRow"
       /\ (/\ last'.op = "checkForNewRowFound"
           /\ form.isSubmitting /\ hist.posted
           /\ \E r \in MostRecent(Matching(form.currentEpisodeName)) : Truthy(r.links[S4]))
          => ~form'.isSubmitting /\ "Success!" \in last'.toasts
      ]_vars

\* C12: while a session is loading, the step that processes a snapshot of
\* the matching record (the result of a poll, or the payload of a delivered
\* INSERT or UPDATE event) stops the loading exactly when script #4 of the
\* snapshot is non-empty, whatever scripts #1-#3 are.
C12_Script4IsTheCompletionSignal ==
    [][/\ \A p \in pending \ pending', r \in MostRecent(Matching(form.currentEpisodeName)) :
            (last'.op = "checkForNewRowFound" /\ form.isSubmitting)
                => (~form'.isSubmitting <=> Truthy(r.links[S4]))
       /\ \A e \in events \ events' :
            (/\ last'.op \in {"insertCallback", "updateCallback"}
             /\ form.isSubmitting
             /\ store[e.id].episode_interview_file_name = form.currentEpisodeName)
                => (~form'.isSubmitting <=> Truthy(store[e.id].links[S4]))
      ]_vars

\* C13: a click on the submit button with an episode name shorter than 3
\* characters, or with no file, an empty file or a file that is not of PDF
\* content type, issues no store query and no webhook request and leaves
\* the form idle: isSubmitting stays false and the latch, the remembered
\* episode and the displayed script fields are unchanged.
C13_InvalidSubmissionRejected ==
    [][(/\ last'.op \in {"onSubmit", "handleSubmitInvalid"}
        /\ \/ Len(form'.episodeName) < 3
           \/ form.pdfFile = NULL
           \/ form.pdfFile = "empty"
           \/ form.pdfFile = "txt")
       => (/\ pending' = pending
           /\ hist' = hist /\ sid' = sid
           /\ ~form.isSubmitting /\ ~form'.isSubmitting
           /\ form'.foundMatchingRecord = form.foundMatchingRecord
           /\ form'.currentEpisodeName = form.currentEpisodeName
           /\ form'.scriptLinks = form.scriptLinks
           /\ form'.isScriptGenerated = form.isScriptGenerated)
      ]_vars

\* C13, reached: after a resolved session, whose scripts are displayed, a
\* submission with a text file was rejected.
C13_Witness ==
    /\ last.op = "handleSubmitInvalid"
    /\ form.pdfFile = "txt" /\ form.episodeName = "ep1"
    /\ ~form.isSubmitting /\ pending = {} /\ sid = 1
    /\ form.scriptLinks[S4] \in Urls

\* C14: when the delete of a row succeeds while that row is the selected
\* one, the step emits exactly one selection, which has every script field
\* null and no episode name, and leaves the list and the container without
\* a selection; when the row is not the selected one, the step emits no
\* selection.
C14_DeleteOfSelectedRowClearsSelection ==
    [][\A p \in pending \ pending' :
          last'.op = "deleteSucceeded" =>
              IF list.selectedRecordId = p.id
              THEN /\ last'.emitted = <<Selection(ClearedLinks, NULL)>>
                   /\ list'.selectedRecordId = NULL
                   /\ app' = NoSelection
              ELSE last'.emitted = <<>>
      ]_vars

\* C15: a click on a row toggles the selection.  A click on the selected row
\* leaves the list without a selected row and emits null script links with
\* no name; a click on any other row makes it the selected row of the list
\* and emits its script fields, its three statuses and its name, and the
\* container then holds these as its selection.
C15_SelectToggles ==
    [][last'.op = "selectRecord" =>
          \E record \in {list.records[k] : k \in 1..Len(list.records)} :
              IF list.selectedRecordId = record.id
              THEN /\ list'.selectedRecordId = NULL
                   /\ last'.emitted = <<Selection(ClearedLinks, NULL)>>
                   /\ app' = NoSelection
              ELSE LET fields ==
                          [links |-> [k \in ScriptKeys |->
                                         IF record.links[k] \in {NULL, ""} THEN NULL
                                         ELSE record.links[k]],
                           episode_interview_script_status |->
                               record.episode_interview_script_status,
                           episode_text_files_status |-> record.episode_text_files_status,
                           podcast_status |-> record.podcast_status]
                   IN /\ list'.selectedRecordId = record.id
                      /\ last'.emitted =
                            <<Selection(fields, record.episode_interview_file_name)>>
                      /\ app'.selectedScriptLinks = fields
                      /\ app'.selectedEpisodeName = record.episode_interview_file_name
      ]_vars

\* C16: from the unsorted state, one click on a column header sorts by that
\* column ascending, a second click on the same header sorts descending,
\* and a third click gives the unsorted state, in which the rows are shown
\* in the order in which they were fetched.
C16_ThreeClicksReturnToFetchOrder ==
    \A column \in SortColumns :
        /\ list.trail = <<column>> =>
              list.sortState = [column |-> column, direction |-> "asc"]
        /\ list.trail = <<column, column>> =>
              list.sortState = [column |-> column, direction |-> "desc"]
        /\ list.trail = <<column, column, column>> =>
              /\ list.sortState = Unsorted
              /\ list.displayed = list.records

\* C16, reached: three clicks on the name column of a result set that was
\* fetched in an order which is neither ascending nor descending.
C16_Witness ==
    /\ list.trail = <<"episode_interview_file_name", "episode_interview_file_name",
                      "episode_interview_file_name">>
    /\ list.sortState = Unsorted
    /\ Len(list.records) = 3
    /\ list.records[1].episode_interview_file_name = "hello"
    /\ list.records[2].episode_interview_file_name = "Zebra"
    /\ list.records[3].episode_interview_file_name = "apple"
    /\ list.displayed = list.records

\* C17: a click on the header of a column other than the one the list is
\* sorted by sorts by the clicked column ascending, whatever the direction
\* was.
C17_OtherColumnStartsAscending ==
    [][\A column \in SortColumns :
          (/\ last'.op = "handleSort"
           /\ list'.trail = Append(list.trail, column)
           /\ list.sortState.column \notin {NULL, column})
          => list'.sortState = [column |-> column, direction |-> "asc"]
      ]_vars

\* C17, reached: the list was sorted by id descending, and a click on the
\* name column sorts it by name ascending.
C17_Witness ==
    /\ list.trail = <<"id", "id", "episode_interview_file_name">>
    /\ list.sortState = [column |-> "episode_interview_file_name", direction |-> "asc"]
    /\ Len(list.records) = 3

\* C18: for two rows of which exactly one has null in a column, the
\* comparator puts the null first when ascending and last when descending,
\* in both argument orders and whatever the other value is; and in the rows
\* shown sorted by that column no row with a value stands before a row with
\* null when ascending, and no row with null before a row with a value when
\* descending.
C18_NullFirstAscendingLastDescending ==
    /\ \A i, j \in 1..Len(list.records) :
          LET a == list.records[i].episode_interview_file_name
              b == list.records[j].episode_interview_file_name
          IN (a = NULL /\ b # NULL) =>
                /\ compareValues(a, b, TRUE) < 0 /\ compareValues(b, a, TRUE) > 0
                /\ compareValues(a, b, FALSE) > 0 /\ compareValues(b, a, FALSE) < 0
    /\ list.sortState.column = "episode_interview_file_name" =>
          \A i, j \in 1..Len(list.displayed) :
              (/\ i < j
               /\ list.displayed[i].episode_interview_file_name = NULL
               /\ list.displayed[j].episode_interview_file_name # NULL)
              => list.sortState.direction = "asc"
    /\ list.sortState.column = "episode_interview_file_name" =>
          \A i, j \in 1..Len(list.displayed) :
              (/\ i < j
               /\ list.displayed[i].episode_interview_file_name # NULL
               /\ list.displayed[j].episode_interview_file_name = NULL)
              => list.sortState.direction = "desc"

\* C18, reached: a result set fetched as a date, null, a number is shown
\* ascending with the null row first.
C18_Witness ==
    /\ list.sortState = [column |-> "episode_interview_file_name", direction |-> "asc"]
    /\ Len(list.records) = 3
    /\ list.records[1].episode_interview_file_name = D1
    /\ list.records[2].episode_interview_file_name = NULL
    /\ list.records[3].episode_interview_file_name = "9"
    /\ list.displayed[1] = list.records[2]

\* C19: on two values that are not null the ascending comparison is the
\* numeric one when both are numbers, else the chronological one when both
\* are valid dates, else the alphabetical one without regard to case; the
\* descending comparison is its reverse; "apple" comes before "Zebra" and
\* the earlier date before the later.
C19_ComparisonPrecedence ==
    /\ \A i, j \in 1..Len(list.records) :
          LET a == list.records[i].episode_interview_file_name
              b == list.records[j].episode_interview_file_name
              numeric == \E m, n \in 0..MaxNumber :
                            /\ ToString(m) = a /\ ToString(n) = b
              dates == /\ a \in {D1, D2} \/ (list.engine.lenientDates /\ a \in {"9", "10"})
                       /\ b \in {D1, D2} \/ (list.engine.lenientDates /\ b \in {"9", "10"})
              asc == Sign(compareValues(a, b, TRUE))
          IN (a # NULL /\ b # NULL) =>
                /\ Sign(compareValues(a, b, FALSE)) = 0 - asc
                /\ numeric => asc = (IF a = b THEN 0 ELSE IF a = "9" THEN -1 ELSE 1)
                /\ (~numeric /\ dates /\ a = D1 /\ b = D2) => asc = -1
                /\ (~numeric /\ dates /\ a = D2 /\ b = D1) => asc = 1
                /\ (~numeric /\ dates /\ a \in {"9", "10"} /\ b \in {D1, D2}) => asc = -1
                /\ (~numeric /\ ~dates /\ a = "apple" /\ b = "Zebra") => asc = -1
                /\ (~numeric /\ ~dates /\ a = "apple" /\ b = "hello") => asc = -1
                /\ (~numeric /\ ~dates /\ a = "hello" /\ b = "Zebra") => asc = -1
                /\ (~numeric /\ ~dates /\ a = "10" /\ b \in {"apple", "hello", "Zebra"}) => asc = -1
                /\ (~numeric /\ ~dates /\ a = D2 /\ b = "hello") => asc = -1
                /\ (~numeric /\ ~dates /\ a = "hello" /\ b = D1) => asc = -1
    /\ list.sortState = [column |-> "episode_interview_file_name", direction |-> "asc"] =>
          \A i, j \in 1..Len(list.displayed) :
              LET a == list.displayed[i].episode_interview_file_name
                  b == list.displayed[j].episode_interview_file_name
              IN (i < j /\ Len(list.displayed) = 2) =>
                    /\ ~(a = "Zebra" /\ b = "apple")
                    /\ ~(a = D2 /\ b = D1)
                    /\ ~(a = "10" /\ b = "9")

\* C19, reached: a result set fetched as "Zebra", "apple" is shown ascending
\* as "apple", "Zebra".
C19_Witness ==
    /\ list.sortState = [column |-> "episode_interview_file_name", direction |-> "asc"]
    /\ Len(list.records) = 2
    /\ list.records[1].episode_interview_file_name = "Zebra"
    /\ list.records[2].episode_interview_file_name = "apple"
    /\ list.displayed = <<list.records[2], list.records[1]>>

\* C20: the comparator is a consistent total order on the values of a
\* column: for all a and b the comparisons of (a, b) and of (b, a) have
\* opposite signs or are both zero, and a before b and b before c make a
\* before c.
C20_ComparatorIsConsistent ==
    \A i, j, k \in 1..Len(list.records) :
        LET a == list.records[i].episode_interview_file_name
            b == list.records[j].episode_interview_file_name
            c == list.records[k].episode_interview_file_name
        IN /\ Sign(compareValues(a, b, TRUE)) = 0 - Sign(compareValues(b, a, TRUE))
           /\ (compareValues(a, b, TRUE) <= 0 /\ compareValues(b, c, TRUE) <= 0)
                  => compareValues(a, c, TRUE) <= 0

\* C23: for every non-empty result set the column list shown is a
\* permutation without duplicates of the observed columns, in which the
\* columns of the predefined order come first, in that order, and the other
\* columns follow in lexicographic order.
C23_ColumnOrder ==
    (list.rendered /\ Len(list.records) > 0) =>
        LET shown == list.orderedColumns
            PrefIndex(c) == CHOOSE i \in 1..Len(PREDEFINED_COLUMN_ORDER) :
                                PREDEFINED_COLUMN_ORDER[i] = c
            Preferred(c) == c \in {PREDEFINED_COLUMN_ORDER[i] : i \in 1..Len(PREDEFINED_COLUMN_ORDER)}
            LexIndex(c) == CHOOSE i \in 1..4 : <<"Zeta", "_tmp", "alpha", "notes">>[i] = c
        IN /\ Len(shown) = Len(list.availableColumns)
           /\ {shown[i] : i \in 1..Len(shown)}
                 = {list.availableColumns[i] : i \in 1..Len(list.availableColumns)}
           /\ \A i, j \in 1..Len(shown) : i # j => shown[i] # shown[j]
           /\ \A i, j \in 1..Len(shown) :
                 i < j =>
                    /\ Preferred(shown[j]) => Preferred(shown[i])
                    /\ (Preferred(shown[i]) /\ Preferred(shown[j]))
                          => PrefIndex(shown[i]) < PrefIndex(shown[j])
                    /\ (~Preferred(shown[i]) /\ ~Preferred(shown[j]))
                          => LexIndex(shown[i]) < LexIndex(shown[j])

\* C23, reached: the columns observed as notes, id, Zeta, created_at are
\* shown as created_at, id, Zeta, notes.
C23_Witness ==
    /\ list.rendered
    /\ list.availableColumns = <<"notes", "id", "Zeta", "created_at">>
    /\ Len(list.records) = 1
    /\ list.orderedColumns = <<"created_at", "id", "Zeta", "notes">>

\* C22, as amended: a fetch that fails puts the failure message into the
\* error state, leaves the result set as it is and dispatches no
\* 'episodes-list-refresh'; a fetch that succeeds replaces the result set
\* by the fetched rows, sets the observed columns to the columns of the
\* first fetched row when there is one, and dispatches
\* 'episodes-list-refresh'.  The error state is cleared when a load starts,
\* and a fetch that succeeds leaves it as it is (so it holds the message of
\* a fetch that failed while this one was in flight).
C22_LoadOutcomes ==
    [][/\ last'.op = "fetchData" => list'.error = NULL /\ list'.records = list.records
       /\ last'.op = "fetchFailed" =>
             /\ list'.error = FetchFailedMsg
             /\ list'.records = list.records
             /\ last'.dispatched = <<>>
       /\ \A p \in pending \ pending' :
             last'.op = "fetchSucceeded" =>
                /\ list'.records = p.data
                /\ Len(p.data) > 0 => list'.availableColumns = Schema
                /\ Len(p.data) = 0 => list'.availableColumns = list.availableColumns
                /\ list'.error = list.error
                /\ last'.dispatched = <<"episodes-list-refresh">>
      ]_vars

\* C22, reached: a fetch has succeeded and has replaced the result set, and
\* the list is in the error state of another fetch.
C22_Witness ==
    /\ last.op = "fetchSucceeded"
    /\ list.error = FetchFailedMsg
    /\ Len(list.records) = 1
    /\ list.availableColumns = Schema

\* C22, as stated: a fetch that fails puts the list into the error state,
\* leaves the result set as it is and dispatches no 'episodes-list-refresh';
\* a fetch that succeeds replaces the result set by the fetched rows, sets
\* the observed columns from them, clears the error state and dispatches
\* 'episodes-list-refresh'.
C22_AsStated ==
    [][/\ last'.op = "fetchFailed" =>
             /\ list'.error # NULL
             /\ list'.records = list.records
             /\ last'.dispatched = <<>>
       /\ \A p \in pending \ pending' :
             last'.op = "fetchSucceeded" =>
                /\ list'.records = p.data
                /\ Len(p.data) > 0 => list'.availableColumns = Schema
                /\ list'.error = NULL
                /\ last'.dispatched = <<"episodes-list-refresh">>
      ]_vars

\* C29: a click on a delete button whose confirmation is declined issues no
\* store call, and a delete that the store refuses emits the "Delete
\* failed" notification; in both cases the table, the result set and the
\* selection of the list and of the container are unchanged and no
\* selection is emitted.  The click that is confirmed changes nothing
\* either before the store has answered.
C29_DeleteNeedsConfirmationAndSuccess ==
    [][/\ last'.op = "handleDeleteDeclined" =>
             /\ pending' = pending /\ store' = store
             /\ list' = list /\ app' = app
             /\ last'.emitted = <<>> /\ last'.toasts = {}
       /\ last'.op = "deleteFailed" =>
             /\ "Delete failed" \in last'.toasts
             /\ store' = store
             /\ list'.records = list.records
             /\ list'.selectedRecordId = list.selectedRecordId
             /\ app' = app
             /\ last'.emitted = <<>>
       /\ last'.op = "handleDelete" =>
             /\ store' = store /\ list' = list /\ app' = app
             /\ last'.emitted = <<>>
      ]_vars

\* C29, reached: the store has refused a delete while a row is selected, and
\* the list still holds both rows and the selection.
C29_Witness ==
    /\ last.op = "deleteFailed"
    /\ list.selectedRecordId = "1"
    /\ app # NoSelection
    /\ Len(list.records) = 2
    /\ store["1"] \in Rows /\ store["2"] \in Rows

\* C30: the list has a selected row exactly when the container has a
\* selection, and the selected row of the list is a row of its result set.
C30_ListAndContainerAgree ==
    /\ list.selectedRecordId # NULL <=> app # NoSelection
    /\ list.selectedRecordId # NULL =>
          \E k \in 1..Len(list.records) : list.records[k].id = list.selectedRecordId

\* C21: when a save succeeds for the row in edit mode (the edit buffer being
\* the one that was saved), the store row with the id of that row holds the
\* columns of the edit buffer, the row of the list with that id has been
\* replaced by the edit buffer, and no row is in edit mode; when the store
\* refuses the update, "Update failed" is emitted and the table, the result
\* set, editingId and the edit buffer are unchanged.
C21_SaveWritesEditedRow ==
    [][/\ \A p \in pending \ pending' :
             (/\ last'.op = "saveSucceeded"
              /\ list.editingId # NULL
              /\ list.editedRecord = p.editedRecord) =>
                /\ store[list.editingId] \in Rows =>
                      [store'[list.editingId] EXCEPT !.id = p.editedRecord.id] = p.editedRecord
                /\ \E j \in 1..Len(list'.records) : list'.records[j] = p.editedRecord
                /\ \A j \in 1..Len(list'.records) :
                      list'.records[j].id = list.editingId => list'.records[j] = p.editedRecord
                /\ list'.editingId = NULL
                /\ list'.editedRecord = NoRow
       /\ last'.op = "saveFailed" =>
             /\ "Update failed" \in last'.toasts
             /\ store' = store
             /\ list'.records = list.records
             /\ list'.editingId = list.editingId
             /\ list'.editedRecord = list.editedRecord
      ]_vars

\* C25: whenever a step ends the loading of a session (isSubmitting goes from
\* true to false: script #4 found by a poll, by a change event or by the
\* response of the webhook, the short-circuit on an existing record, or the
\* ceiling on the waiting time), the poll interval and the timeout are not
\* pending after the step, and the file selection is cleared (selectedFile
\* is null and the file input is empty).
C25_ResolvedClearsTimersAndFile ==
    [][(form.isSubmitting /\ ~form'.isSubmitting) =>
          /\ form'.script4CheckIntervalRef = NULL
          /\ form'.maxWaitTimeoutRef = NULL
          /\ form'.selectedFile = NULL
          /\ form'.fileInput = ""
      ]_vars

\* A session has just resolved while a file was selected.
C25_Witness ==
    /\ sid > 0 /\ ~form.isSubmitting
    /\ last.op \in {"checkForNewRowFound", "insertCallback", "updateCallback",
                    "existingCheckFound", "webhookItem"}
    /\ "Success!" \in last.toasts \/ "Scripts Found!" \in last.toasts
    /\ form.pdfFile # NULL
    /\ form.selectedFile = NULL /\ form.fileInput = ""

C26_DialogIsStateless ==
    [][/\ form'.dialogRefreshInterval = NULL
       /\ last'.op # "triggerRefresh"
       /\ last'.op = "clickYes" =>
             /\ \E k \in 1..Len(last'.invoked) : last'.invoked[k] = "onConfirm"
             /\ \A k \in 1..Len(last'.invoked) : last'.invoked[k] # "onCancel"
             /\ ~form'.isApprovalDialogOpen
       /\ last'.op = "clickNo" =>
             /\ \E k \in 1..Len(last'.invoked) : last'.invoked[k] = "onCancel"
             /\ \A k \in 1..Len(last'.invoked) : last'.invoked[k] # "onConfirm"
             /\ ~form'.isApprovalDialogOpen
      ]_vars

\* C27: if from some point on no other client changes the table and no
\* fetch fails, then from some point on the rows the list holds are the
\* rows of the table.
C27_ListFollowsStore ==
    <>[](last.op \notin {"ExternalInsert", "ExternalUpdate", "ExternalDelete", "fetchFailed"})
        => <>[](list.records = SelectAll)

\* A refresh has just brought the list to the table as another client left
\* it: the rows it held before were not the rows of the table.
C27_Witness ==
    /\ last.op = "fetchSucceeded"
    /\ list.records = SelectAll
    /\ \E i \in DOMAIN store : store[i] # NoRow
    /\ ~list.isLoading

\* C24: after every step, if the latch is set or the form has unmounted then
\* neither the poll interval nor the timeout is pending; if the form has
\* unmounted then its two channels are unsubscribed and its auto-refresh
\* interval is cleared; and once it has unmounted no timer, interval,
\* listener or subscription callback of the form runs (the answers to the
\* requests it had in flight are still handled).
C24_TimersAndSubscriptionsTornDown ==
    [][/\ (form'.foundMatchingRecord \/ ~form'.mounted) =>
             /\ form'.script4CheckIntervalRef = NULL
             /\ form'.maxWaitTimeoutRef = NULL
       /\ ~form'.mounted =>
             /\ ~form'.subscribed
             /\ form'.refreshIntervalRef = NULL
       /\ ~form.mounted =>
             /\ last'.op \notin {"insertCallback", "updateCallback", "autoRefresh",
                                 "handleEpisodesListRefresh", "onSubmit", "handleFileChange"}
             /\ last'.op = "Tick" => form' = form
      ]_vars

\* The form has unmounted while a session was loading with its latch set.
C24_Witness ==
    /\ ~form.mounted
    /\ form.isSubmitting /\ form.foundMatchingRecord
    /\ ~form.subscribed /\ form.refreshIntervalRef = NULL
    /\ form.script4CheckIntervalRef = NULL /\ form.maxWaitTimeoutRef = NULL

\* C24 as stated: once the form has unmounted, no code of the form runs
\* again (the steps left are those of other clients and the passing of time).
C24_AsStated ==
    [][~form.mounted =>
          last'.op \in {"ExternalInsert", "ExternalUpdate", "Tick"}]_vars

\* C38: the container holds script links exactly when it holds an episode
\* name; after a step in which the list called onRecordSelect, the container
\* holds neither if the last call carried an empty or missing name, and
\* holds the links and the name of that call otherwise.
C38_SelectionIsBothOrNeither ==
    /\ (app.selectedScriptLinks = NullLinks) <=> (app.selectedEpisodeName = NULL)
    /\ Len(last.emitted) > 0 =>
          LET e == last.emitted[Len(last.emitted)]
          IN IF e.episodeName \in {NULL, ""}
             THEN app = NoSelection
             ELSE /\ app.selectedScriptLinks = e.scriptLinks
                  /\ app.selectedEpisodeName = e.episodeName

\* A row without a name was clicked: the event carried its script links and
\* an empty name, and the container holds no selection.
C38_Witness ==
    /\ last.op = "selectRecord"
    /\ Len(last.emitted) = 1
    /\ last.emitted[1].episodeName = ""
    /\ last.emitted[1].scriptLinks # ClearedLinks
    /\ app = NoSelection

\* C39: the list's sort column is null exactly when its sort direction is
\* null; editingId is null exactly when the edit buffer is null; and an edit
\* buffer that is not null has the id editingId.  (Each half speaks of the
\* list where its state is followed.)
C39_SortAndEditStateConsistent ==
    /\ "sortState" \in DOMAIN list =>
          ((list.sortState.column = NULL) <=> (list.sortState.direction = NULL))
    /\ "editingId" \in DOMAIN list =>
          /\ (list.editingId = NULL) <=> (list.editedRecord = NoRow)
          /\ list.editedRecord # NoRow => list.editedRecord.id = list.editingId

\* C33: a submission is accepted only while the form shows a selected file:
\* after clearPdfFile has emptied the selection (selectedFile null, file
\* input empty) no submit passes validation until the user picks a file
\* again.
C33_NoSubmissionCarriesOldFile ==
    [][last'.op = "onSubmit" =>
          /\ form.selectedFile # NULL
          /\ form.fileInput # ""
      ]_vars

C31_StaleQueriesLeaveTheSessionAlone ==
    [][\A p \in pending \ pending' :
          (/\ p.op \in {"existingCheck", "checkForNewRow"}
           /\ p.sid < sid
           /\ p.name # form.currentEpisodeName) =>
              /\ form'.foundMatchingRecord = form.foundMatchingRecord
              /\ form'.scriptLinks = form.scriptLinks
              /\ form'.isSubmitting = form.isSubmitting
      ]_vars

\* C32: when the existence check or a poll ends the loading of a session on
\* a record that bears the submitted name, the local script status is
\* Approved if the record's script status is Approved and Pending if it is
\* anything else or missing.
C32_ResolvedStatusIsTheRecords ==
    [][(/\ last'.op \in {"existingCheckFound", "checkForNewRowFound"}
        /\ form.isSubmitting /\ ~form'.isSubmitting
        /\ store[form'.currentEpisodeId].episode_interview_file_name
              = form.currentEpisodeName) =>
           form'.scriptStatus =
              IF store[form'.currentEpisodeId].episode_interview_script_status = "Approved"
              THEN "Approved" ELSE "Pending"
      ]_vars

\* C34: with several fetches in flight, the rows the list holds never go
\* back: once the answer to a later-issued fetch has been applied, applying
\* an answer does not replace it by the answer to an earlier-issued fetch
\* (over a table that only grows, by fewer rows than the list holds).
C34_ResultSetNeverRegresses ==
    [][last'.op = "fetchSucceeded" => Len(list'.records) >= Len(list.records)]_vars

\* C35: when a save or a delete that was in flight while a refresh was
\* applied succeeds right after that refresh, the rows the list holds
\* afterwards are the rows of that refresh (the most recently fetched rows)
\* with the saved row replaced, or with the deleted row removed, whatever
\* rows the list held when the user clicked.
C35_CompletionKeepsTheRefresh ==
    [][\A p \in pending \ pending' :
          /\ (last.op = "fetchSucceeded" /\ p.op = "save" /\ last'.op = "saveSucceeded") =>
                list'.records = WithRow(list.records, p.editedRecord)
          /\ (last.op = "fetchSucceeded" /\ p.op = "delete" /\ last'.op = "deleteSucceeded") =>
                list'.records = WithoutRow(list.records, p.id)
      ]_vars

\* C36: when two or more rows of the table bear the submitted name and the
\* existence check, a poll or an INSERT or UPDATE callback loads script
\* links into the form for that name, the links shown are those of the row
\* created last among them, and the id remembered for the approval is that
\* row's id.
C36_LoadsShowTheMostRecentRecord ==
    [][(/\ last'.op \in {"existingCheckFound", "checkForNewRowFound",
                         "insertCallback", "updateCallback"}
        /\ form'.scriptLinks # form.scriptLinks
        /\ form.currentEpisodeName # NULL
        /\ \A p \in pending \ pending' : p.name = form.currentEpisodeName
        /\ Cardinality(Matching(form.currentEpisodeName)) >= 2) =>
           \E r \in MostRecent(Matching(form.currentEpisodeName)) :
               /\ form'.scriptLinks = [k \in ScriptKeys |-> OrNull(r.links[k])]
               /\ form'.currentEpisodeId = r.id
      ]_vars
====
